---- MODULE Spec2Model ----
(***************************************************************************)
(* Model of the map persistence code of the Mapper tile editor             *)
(* (src/mapper/map_io.py): the line-oriented decoder _parse_map_file and   *)
(* the encoder save_map, with the Python string operations they rest on.   *)
(* With it: the tile defaults loader (src/mapper/tile_defaults.py) and the  *)
(* editor's Load Atlas, palette, paint and Load Map (src/mapper/editor.py,  *)
(* src/mapper/modes/paint.py), and the editor's modes with their hotkeys,  *)
(* selections and panels (src/mapper/modes/blocked.py, examine.py,         *)
(* spawn.py).                                                              *)
(*                                                                         *)
(* A Python str is a sequence of one-character strings, so that split,     *)
(* strip, int() and the f-string formatting are computed, not assumed.     *)
(* A Python dict is a sequence of <<key, value>> pairs in insertion order  *)
(* with unique keys, so that iteration order and sorted() are computed.    *)
(***************************************************************************)
EXTENDS Integers, Sequences, FiniteSets, TLC

\* ------------------------------------------------------------------------
\* Bounds of the model
\* ------------------------------------------------------------------------

\* The longest file the decoder is fed, in lines.
MaxLines == 5

\* The most tiles of a map that is saved.
MaxTiles == 2

\* The longest tile defaults file that is read, in lines.
MaxDefaultsLines == 3

\* The longest file of tile and examine sections the decoder is fed, in lines.
MaxLongLines == 6

\* The longest file of header lines, comments and blank lines the decoder is
\* fed, in lines.
MaxPlainLines == 4

\* ------------------------------------------------------------------------
\* Python values
\* ------------------------------------------------------------------------

\* Python's None. A str is a sequence of one-character strings, so no str
\* equals this one-element sequence.
None == <<"None">>

TAB == "\t"

NL == "\n"

\* The characters str.strip() and int() treat as whitespace.
Whitespace == {" ", "\t", "\n", "\r"}

Digits == <<"0", "1", "2", "3", "4", "5", "6", "7", "8", "9">>

IsDigit(c) == \E i \in 1..10 : Digits[i] = c

DigitVal(c) == (CHOOSE i \in 1..10 : Digits[i] = c) - 1

SetMin(S) == CHOOSE m \in S : \A n \in S : m <= n

SetMax(S) == CHOOSE m \in S : \A n \in S : m >= n

RECURSIVE LStripChars(_, _)
\* s.lstrip(chars)
LStripChars(s, chars) ==
    IF s # <<>> /\ Head(s) \in chars THEN LStripChars(Tail(s), chars) ELSE s

RECURSIVE RStripChars(_, _)
\* s.rstrip(chars)
RStripChars(s, chars) ==
    IF s # <<>> /\ s[Len(s)] \in chars
    THEN RStripChars(SubSeq(s, 1, Len(s) - 1), chars)
    ELSE s

\* s.strip()
Strip(s) == LStripChars(RStripChars(s, Whitespace), Whitespace)

\* s.startswith(p)
StartsWith(s, p) == Len(s) >= Len(p) /\ SubSeq(s, 1, Len(p)) = p

\* c in s
Contains(s, c) == \E i \in 1..Len(s) : s[i] = c

RECURSIVE Find(_, _, _)
\* s.find(c, i), 1-based: the first index from i on that holds c, 0 if none.
Find(s, c, i) ==
    IF i > Len(s) THEN 0 ELSE IF s[i] = c THEN i ELSE Find(s, c, i + 1)

RECURSIVE SplitN(_, _, _)
\* s.split(sep, n): at most n splits at the single character sep, from the left.
SplitN(s, sep, n) ==
    LET i == Find(s, sep, 1)
    IN  IF n = 0 \/ i = 0
        THEN <<s>>
        ELSE <<SubSeq(s, 1, i - 1)>> \o SplitN(SubSeq(s, i + 1, Len(s)), sep, n - 1)

\* s.split(sep): no limit on the number of splits.
Split(s, sep) == SplitN(s, sep, Len(s))

\* The text int() accepts: optional whitespace around an optional sign and
\* one or more decimal digits (digit-group underscores are not modelled; no
\* input of the model contains one).
IntBody(s) ==
    LET t == Strip(s)
    IN  IF t # <<>> /\ t[1] \in {"-", "+"} THEN Tail(t) ELSE t

\* int(s) returns rather than raising ValueError.
IsInt(s) ==
    LET body == IntBody(s)
    IN  body # <<>> /\ \A i \in 1..Len(body) : IsDigit(body[i])

RECURSIVE DigitsValue(_)
DigitsValue(d) ==
    IF d = <<>> THEN 0
    ELSE 10 * DigitsValue(SubSeq(d, 1, Len(d) - 1)) + DigitVal(d[Len(d)])

\* int(s), for s with IsInt(s).
IntValue(s) ==
    LET t == Strip(s)
        magnitude == DigitsValue(IntBody(s))
    IN  IF t[1] = "-" THEN 0 - magnitude ELSE magnitude

RECURSIVE NatToStr(_)
NatToStr(n) ==
    IF n < 10 THEN <<Digits[n + 1]>>
    ELSE NatToStr(n \div 10) \o <<Digits[(n % 10) + 1]>>

\* str(n) as an f-string formats an int.
IntToStr(n) == IF n < 0 THEN <<"-">> \o NatToStr(0 - n) ELSE NatToStr(n)

\* ------------------------------------------------------------------------
\* dict: <<key, value>> pairs in insertion order, keys unique
\* ------------------------------------------------------------------------

DictKeys(d) == {d[i][1] : i \in 1..Len(d)}

\* k in d
DictHas(d, k) == \E i \in 1..Len(d) : d[i][1] = k

\* d[k], for k in d
DictGet(d, k) == d[CHOOSE i \in 1..Len(d) : d[i][1] = k][2]

\* d[k] = v: an existing key keeps its position, a new key goes last.
DictSet(d, k, v) ==
    IF DictHas(d, k)
    THEN [i \in 1..Len(d) |-> IF d[i][1] = k THEN <<k, v>> ELSE d[i]]
    ELSE Append(d, <<k, v>>)

\* The mapping a dict denotes: d1 == d2 in Python compares these.
DictMap(d) == [k \in DictKeys(d) |-> DictGet(d, k)]

\* ------------------------------------------------------------------------
\* Entities (tile.py, monsterspawn.py)
\* ------------------------------------------------------------------------

\* Tile(sprite=sprite, blocked=blocked): examine_text defaults to None.
Tile(sprite, blocked) ==
    [sprite |-> sprite, blocked |-> blocked, examine_text |-> None]

MonsterSpawn(name, respawn_ticks) ==
    [name |-> name, respawn_ticks |-> respawn_ticks]

\* ------------------------------------------------------------------------
\* Decoding: _parse_map_file and its per-section line parsers
\* ------------------------------------------------------------------------

SecTiles == <<"t", "i", "l", "e", "s">>

SecExamine == <<"e", "x", "a", "m", "i", "n", "e">>

SecSpawns == <<"s", "p", "a", "w", "n", "s">>

Dashes == <<"-", "-", "-">>

\* No exception is propagating.
NoExc == "none"

\* One print(f"Warning line {line_num}: ...") on standard output.
Warning(line_num, msg) == [line_num |-> line_num, msg |-> msg]

\* A ValueError raised in a try block and left uncaught.
UncaughtValueError(line_num, msg) == [out |-> <<>>, exc |-> "ValueError"]

\* except ValueError as e: print(f"Warning line {line_num}: failed to ...")
ExceptValueError(line_num, msg) ==
    [out |-> <<Warning(line_num, msg)>>, exc |-> NoExc]

\* A line parser's return after printing one warning, or none.
Skip(coll, warnings) == [coll |-> coll, out |-> warnings, exc |-> NoExc]

\* The header line split at its last colon.
_parse_header_line_rsplit(line, header) ==
    IF Contains(line, ":")
    THEN LET last == SetMax({i \in 1..Len(line) : line[i] = ":"})
         IN  DictSet(header, Strip(SubSeq(line, 1, last - 1)),
                     Strip(SubSeq(line, last + 1, Len(line))))
    ELSE header

_parse_header_line(line, header) ==
    IF Contains(line, ":")
    THEN LET kv == SplitN(line, ":", 1)
         IN  DictSet(header, Strip(kv[1]), Strip(kv[2]))
    ELSE header

\* No sprite index is turned away.
AnySprite(sprite, valid_indices) == TRUE

\* The sprite test of _parse_tile_line.
SpriteKnown(sprite, valid_indices) == sprite \in valid_indices

\* A tile line for a coordinate that holds a tile changes its sprite and
\* blocked flag and keeps its examine text.
_parse_tile_line_merge(line, line_num, valid_indices, tiles) ==
    LET parts == Split(line, TAB)
    IN  IF Len(parts) < 4
        THEN Skip(tiles, <<Warning(line_num, "insufficient fields")>>)
        ELSE IF ~(IsInt(parts[1]) /\ IsInt(parts[2]) /\ IsInt(parts[3]) /\ IsInt(parts[4]))
        THEN [coll |-> tiles] @@ ExceptValueError(line_num, "failed to parse tile")
        ELSE LET x == IntValue(parts[1])
                 y == IntValue(parts[2])
                 sprite == IntValue(parts[3])
                 blocked == (IntValue(parts[4]) # 0)
                 old == IF DictHas(tiles, <<x, y>>) THEN DictGet(tiles, <<x, y>>)
                        ELSE Tile(sprite, blocked)
             IN  IF ~SpriteKnown(sprite, valid_indices)
                 THEN Skip(tiles, <<Warning(line_num, "sprite index not in loaded atlas")>>)
                 ELSE Skip(DictSet(tiles, <<x, y>>,
                               [old EXCEPT !.sprite = sprite, !.blocked = blocked]), <<>>)

_parse_tile_line(line, line_num, valid_indices, tiles) ==
    LET parts == Split(line, TAB)
    IN  IF Len(parts) < 4
        THEN Skip(tiles, <<Warning(line_num, "insufficient fields")>>)
        ELSE IF ~(IsInt(parts[1]) /\ IsInt(parts[2]) /\ IsInt(parts[3]) /\ IsInt(parts[4]))
        THEN [coll |-> tiles] @@ ExceptValueError(line_num, "failed to parse tile")
        ELSE LET x == IntValue(parts[1])
                 y == IntValue(parts[2])
                 sprite == IntValue(parts[3])
                 blocked == (IntValue(parts[4]) # 0)
             IN  IF ~SpriteKnown(sprite, valid_indices)
                 THEN Skip(tiles, <<Warning(line_num, "sprite index not in loaded atlas")>>)
                 ELSE Skip(DictSet(tiles, <<x, y>>, Tile(sprite, blocked)), <<>>)

\* The examine line split at every tab.
ExaminePartsAll(line) == Split(line, TAB)

\* The split of _parse_examine_line: at most 3 parts.
ExamineParts(line) == SplitN(line, TAB, 2)

\* examine_text if examine_text else None
TextOrNone(examine_text) == IF examine_text # <<>> THEN examine_text ELSE None

\* An examine line that makes the tile it names when there is none.
_parse_examine_line_upsert(line, line_num, tiles) ==
    LET parts == ExamineParts(line)
    IN  IF Len(parts) < 3
        THEN Skip(tiles, <<Warning(line_num, "insufficient fields in examine section")>>)
        ELSE IF ~(IsInt(parts[1]) /\ IsInt(parts[2]))
        THEN [coll |-> tiles] @@ ExceptValueError(line_num, "failed to parse examine line")
        ELSE LET coords == <<IntValue(parts[1]), IntValue(parts[2])>>
                 old == IF DictHas(tiles, coords) THEN DictGet(tiles, coords)
                        ELSE Tile(0, FALSE)
             IN  Skip(DictSet(tiles, coords,
                          [old EXCEPT !.examine_text = TextOrNone(parts[3])]), <<>>)

_parse_examine_line(line, line_num, tiles) ==
    LET parts == ExamineParts(line)
    IN  IF Len(parts) < 3
        THEN Skip(tiles, <<Warning(line_num, "insufficient fields in examine section")>>)
        ELSE IF ~(IsInt(parts[1]) /\ IsInt(parts[2]))
        THEN [coll |-> tiles] @@ ExceptValueError(line_num, "failed to parse examine line")
        ELSE LET coords == <<IntValue(parts[1]), IntValue(parts[2])>>
                 examine_text == parts[3]
             IN  IF DictHas(tiles, coords)
                 THEN Skip(DictSet(tiles, coords,
                               [DictGet(tiles, coords) EXCEPT
                                   !.examine_text = TextOrNone(examine_text)]), <<>>)
                 ELSE Skip(tiles, <<Warning(line_num, "examine text for non-existent tile")>>)

\* A spawn line is stored before its name is looked at.
_parse_spawn_line_store_first(line, line_num, spawns) ==
    LET parts == Split(line, TAB)
    IN  IF Len(parts) < 4
        THEN Skip(spawns, <<Warning(line_num, "insufficient fields in spawns section")>>)
        ELSE IF ~(IsInt(parts[1]) /\ IsInt(parts[2]) /\ IsInt(parts[4]))
        THEN [coll |-> spawns] @@ ExceptValueError(line_num, "failed to parse spawn line")
        ELSE LET x == IntValue(parts[1])
                 y == IntValue(parts[2])
                 name == parts[3]
                 respawn_ticks == IntValue(parts[4])
                 stored == DictSet(spawns, <<x, y>>, MonsterSpawn(name, respawn_ticks))
             IN  IF name = <<>>
                 THEN Skip(stored, <<Warning(line_num, "empty spawn name")>>)
                 ELSE Skip(stored, <<>>)

_parse_spawn_line(line, line_num, spawns) ==
    LET parts == Split(line, TAB)
    IN  IF Len(parts) < 4
        THEN Skip(spawns, <<Warning(line_num, "insufficient fields in spawns section")>>)
        ELSE IF ~(IsInt(parts[1]) /\ IsInt(parts[2]) /\ IsInt(parts[4]))
        THEN [coll |-> spawns] @@ ExceptValueError(line_num, "failed to parse spawn line")
        ELSE LET x == IntValue(parts[1])
                 y == IntValue(parts[2])
                 name == parts[3]
                 respawn_ticks == IntValue(parts[4])
             IN  IF name = <<>>
                 THEN Skip(spawns, <<Warning(line_num, "empty spawn name")>>)
                 ELSE Skip(DictSet(spawns, <<x, y>>, MonsterSpawn(name, respawn_ticks)), <<>>)

\* data = MapData(); current_section = None; nothing printed, nothing raised.
NewParse ==
    [current_section |-> None, header |-> <<>>, tiles |-> <<>>, spawns |-> <<>>,
     out |-> <<>>, exc |-> NoExc]

\* The first delimiter switches to the section it names, as the later ones do.
NextSectionNamed(current_section, stripped) ==
    LET section_name == Strip(SubSeq(stripped, 4, Len(stripped)))
    IN  IF section_name # <<>> THEN section_name ELSE SecTiles

\* A delimiter that names no section leads back to the header.
NextSectionOrHeader(current_section, stripped) ==
    LET section_name == Strip(SubSeq(stripped, 4, Len(stripped)))
    IN  IF current_section = None THEN SecTiles
        ELSE IF section_name # <<>> THEN section_name ELSE None

\* The section a delimiter line switches to.
NextSection(current_section, stripped) ==
    IF current_section = None
    THEN SecTiles
    ELSE LET section_name == Strip(SubSeq(stripped, 4, Len(stripped)))
         IN  IF section_name # <<>> THEN section_name ELSE SecTiles

\* Only a blank line is skipped before the dispatch.
IsBlank(stripped) == stripped = <<>>

\* The line is skipped before any dispatch: blank or a comment.
IsIgnored(stripped) == stripped = <<>> \/ StartsWith(stripped, <<"#">>)

IsDelimiter(stripped) == StartsWith(stripped, Dashes)

\* The line as read, its line end kept.
KeepLineEnd(raw) == raw

\* line.rstrip("\n\r")
ChompLine(raw) == RStripChars(raw, {"\n", "\r"})

\* A line of a section with an unknown name is answered with a warning.
WarnUnknown(st, line_num) ==
    [st EXCEPT !.out = Append(@, Warning(line_num, "unknown section"))]

\* Unknown sections are silently skipped (forward compatibility).
SkipUnknown(st, line_num) == st

\* The dispatch on current_section of a line that is neither ignored nor a
\* delimiter.
Dispatch(st, line, stripped, line_num, valid_indices) ==
    IF st.current_section = None
    THEN [st EXCEPT !.header = _parse_header_line(stripped, st.header)]
    ELSE IF st.current_section = SecTiles
    THEN LET r == _parse_tile_line(line, line_num, valid_indices, st.tiles)
         IN  [st EXCEPT !.tiles = r.coll, !.out = @ \o r.out, !.exc = r.exc]
    ELSE IF st.current_section = SecExamine
    THEN LET r == _parse_examine_line(line, line_num, st.tiles)
         IN  [st EXCEPT !.tiles = r.coll, !.out = @ \o r.out, !.exc = r.exc]
    ELSE IF st.current_section = SecSpawns
    THEN LET r == _parse_spawn_line(line, line_num, st.spawns)
         IN  [st EXCEPT !.spawns = r.coll, !.out = @ \o r.out, !.exc = r.exc]
    ELSE SkipUnknown(st, line_num)

\* One iteration of the for loop of _parse_map_file over the raw line `raw`.
LoopBody(st, raw, line_num, valid_indices) ==
    LET line == ChompLine(raw)
        stripped == Strip(line)
    IN  IF IsIgnored(stripped)
        THEN st
        ELSE IF IsDelimiter(stripped)
        THEN [st EXCEPT !.current_section = NextSection(st.current_section, stripped)]
        ELSE Dispatch(st, line, stripped, line_num, valid_indices)

RECURSIVE ParseFrom(_, _, _, _)
\* The for loop over the lines from number line_num on; an exception ends it.
ParseFrom(st, lines, line_num, valid_indices) ==
    IF lines = <<>> \/ st.exc # NoExc
    THEN st
    ELSE ParseFrom(LoopBody(st, Head(lines), line_num, valid_indices),
                   Tail(lines), line_num + 1, valid_indices)

RECURSIVE FileLines(_)
\* Iterating a text file: each line ends after its "\n"; text after the last
\* "\n" is a final line. (Text mode has already turned "\r\n" and "\r" into "\n".)
FileLines(content) ==
    LET i == Find(content, NL, 1)
    IN  IF content = <<>> THEN <<>>
        ELSE IF i = 0 THEN <<content>>
        ELSE <<SubSeq(content, 1, i)>> \o FileLines(SubSeq(content, i + 1, Len(content)))

\* _parse_map_file(f, valid_sprite_indices) on a file with the given content.
_parse_map_file(content, valid_indices) ==
    ParseFrom(NewParse, FileLines(content), 1, valid_indices)

\* ------------------------------------------------------------------------
\* Encoding: save_map
\* ------------------------------------------------------------------------

\* Tuple order of two (x, y) keys: x first, then y, as integers.
KeyLess(a, b) == a[1] < b[1] \/ (a[1] = b[1] /\ a[2] < b[2])

\* The dict's items in insertion order: what iterating d.items() yields.
Unsorted(items) == items

\* sorted(items) for (key, value) pairs with distinct keys: the item that has
\* i - 1 items before it in key order comes i-th.
Sorted(items) ==
    [i \in 1..Len(items) |->
        items[CHOOSE j \in 1..Len(items) :
            Cardinality({k \in 1..Len(items) : KeyLess(items[k][1], items[j][1])}) = i - 1]]

\* os.path.basename(path): the text after the last "/".
Basename(path) ==
    LET slashes == {i \in 1..Len(path) : path[i] = "/"}
    IN  IF slashes = {} THEN path ELSE SubSeq(path, SetMax(slashes) + 1, Len(path))

\* The fixed texts save_map writes.
NAME_UNTITLED == <<"n", "a", "m", "e", ":", "U", "n", "t", "i", "t", "l", "e", "d">>

KEY_WIDTH == <<"w", "i", "d", "t", "h", ":">>

KEY_HEIGHT == <<"h", "e", "i", "g", "h", "t", ":">>

KEY_ORIGIN == <<"o", "r", "i", "g", "i", "n", ":">>

KEY_TILESET == <<"t", "i", "l", "e", "s", "e", "t", ":">>

NAME_UNKNOWN == <<"u", "n", "k", "n", "o", "w", "n">>

DELIM_EXAMINE == <<"-", "-", "-", " ", "e", "x", "a", "m", "i", "n", "e">>

DELIM_SPAWNS == <<"-", "-", "-", " ", "s", "p", "a", "w", "n", "s">>

_serialize_tile(x, y, tile) ==
    LET blocked_flag == IF tile.blocked THEN 1 ELSE 0
    IN  IntToStr(x) \o <<TAB>> \o IntToStr(y) \o <<TAB>> \o IntToStr(tile.sprite)
            \o <<TAB>> \o IntToStr(blocked_flag)

\* The header lines with the distances between the extremes as width and
\* height.
HeaderLinesSpan(tiles, atlas_path) ==
    LET xs == {k[1] : k \in DictKeys(tiles)}
        ys == {k[2] : k \in DictKeys(tiles)}
        atlas_name == IF atlas_path # None THEN Basename(atlas_path)
                      ELSE NAME_UNKNOWN
    IN  << NAME_UNTITLED \o <<NL>>,
           KEY_WIDTH \o IntToStr(SetMax(xs) - SetMin(xs)) \o <<NL>>,
           KEY_HEIGHT \o IntToStr(SetMax(ys) - SetMin(ys)) \o <<NL>>,
           KEY_ORIGIN \o IntToStr(SetMin(xs)) \o <<",">> \o IntToStr(SetMin(ys)) \o <<NL>>,
           KEY_TILESET \o atlas_name \o <<NL>>,
           Dashes \o <<NL>> >>

\* The header lines save_map writes, the bare "---" included.
HeaderLines(tiles, atlas_path) ==
    LET xs == {k[1] : k \in DictKeys(tiles)}
        ys == {k[2] : k \in DictKeys(tiles)}
        min_x == SetMin(xs)
        max_x == SetMax(xs)
        min_y == SetMin(ys)
        max_y == SetMax(ys)
        width == max_x - min_x + 1
        height == max_y - min_y + 1
        atlas_name == IF atlas_path # None THEN Basename(atlas_path)
                      ELSE NAME_UNKNOWN
    IN  << NAME_UNTITLED \o <<NL>>,
           KEY_WIDTH \o IntToStr(width) \o <<NL>>,
           KEY_HEIGHT \o IntToStr(height) \o <<NL>>,
           KEY_ORIGIN \o IntToStr(min_x) \o <<",">> \o IntToStr(min_y) \o <<NL>>,
           KEY_TILESET \o atlas_name \o <<NL>>,
           Dashes \o <<NL>> >>

\* The tile lines: one per tile, in sorted order.
TileLines(tiles) ==
    LET items == Sorted(tiles)
    IN  [i \in 1..Len(items) |->
            _serialize_tile(items[i][1][1], items[i][1][2], items[i][2]) \o <<NL>>]

HasExamineText(item) == item[2].examine_text # None

\* What _write_examine_section writes: nothing, or the delimiter and one
\* line per tile that has examine text.
_write_examine_section(tiles) ==
    LET examine_tiles == SelectSeq(tiles, HasExamineText)
        items == Sorted(examine_tiles)
    IN  IF examine_tiles = <<>>
        THEN <<>>
        ELSE <<DELIM_EXAMINE \o <<NL>>>> \o
             [i \in 1..Len(items) |->
                 IntToStr(items[i][1][1]) \o <<TAB>> \o IntToStr(items[i][1][2])
                     \o <<TAB>> \o items[i][2].examine_text \o <<NL>>]

\* What _write_spawns_section writes: nothing, or the delimiter and one line
\* per spawn.
_write_spawns_section(spawns) ==
    LET items == Sorted(spawns)
    IN  IF spawns = <<>>
        THEN <<>>
        ELSE <<DELIM_SPAWNS \o <<NL>>>> \o
             [i \in 1..Len(items) |->
                 IntToStr(items[i][1][1]) \o <<TAB>> \o IntToStr(items[i][1][2])
                     \o <<TAB>> \o items[i][2].name
                     \o <<TAB>> \o IntToStr(items[i][2].respawn_ticks) \o <<NL>>]

\* Everything save_map writes to the opened file, line by line, for
\* non-empty tiles.
SaveLines(tiles, spawns, atlas_path) ==
    HeaderLines(tiles, atlas_path) \o TileLines(tiles)
        \o _write_examine_section(tiles) \o _write_spawns_section(spawns)

RECURSIVE Flatten(_)
\* The file's content after the writes.
Flatten(lines) == IF lines = <<>> THEN <<>> ELSE Head(lines) \o Flatten(Tail(lines))

\* The ValueError save_map raises for an empty map.
EmptyMapError == "Cannot save empty map"

\* save_map opens the file before it looks at tiles.
CheckAfterOpen(tiles, spawns, atlas_path, old_content) ==
    IF tiles = <<>>
    THEN [exc |-> EmptyMapError, written |-> <<>>, content |-> <<>>]
    ELSE [exc |-> NoExc,
          written |-> SaveLines(tiles, spawns, atlas_path),
          content |-> Flatten(SaveLines(tiles, spawns, atlas_path))]

\* save_map(path, tiles, spawns, atlas_path), for a path that can be written:
\* the exception raised, the lines written, and the content of the file at
\* path afterwards (old_content when it is not opened).
save_map(tiles, spawns, atlas_path, old_content) ==
    IF tiles = <<>>
    THEN [exc |-> EmptyMapError, written |-> <<>>, content |-> old_content]
    ELSE [exc |-> NoExc,
          written |-> SaveLines(tiles, spawns, atlas_path),
          content |-> Flatten(SaveLines(tiles, spawns, atlas_path))]

\* ------------------------------------------------------------------------
\* The editor's operations on its map (src/mapper/editor.py, modes/paint.py)
\* ------------------------------------------------------------------------

SPRITE_SIZE == 16

WORLD_OFFSET == 512

\* The text limit of Examine mode.
MAX_EXAMINE_LENGTH == 80

\* The dict is left as it is.
KeepEntries(d) == d

\* d.clear()
DictClear(d) == <<>>

RECURSIVE DictUpdate(_, _)
\* d.update(other)
DictUpdate(d, other) ==
    IF other = <<>>
    THEN d
    ELSE DictUpdate(DictSet(d, Head(other)[1], Head(other)[2]), Tail(other))

\* del d[k], for k in d
DictDel(d, k) == SelectSeq(d, LAMBDA item : item[1] # k)

\* The modes _setup_modes registers, and their hotkeys.
_modes == {"paint", "blocked", "examine", "spawn"}

_mode_keys == [p |-> "paint", b |-> "blocked", e |-> "examine", s |-> "spawn"]

\* event.char.lower(), for the keys that are pressed.
Lower(char) ==
    CASE char = "E" -> "e"
      [] char = "S" -> "s"
      [] OTHER -> char

\* ExamineMode: the selection, the text it had, and what the text widget of
\* the panel holds (without the newline tk.Text ends its content with).
ExamineState(selected_coords, original_text, text) ==
    [_selected_coords |-> selected_coords, _original_text |-> original_text,
     text |-> text]

\* ExamineMode.__init__, and the text widget as build_panel makes it.
NewExamine == ExamineState(None, None, <<>>)

\* ExamineMode.on_activate
ExamineMode_on_activate(m) ==
    [m EXCEPT !._selected_coords = None, !._original_text = None]

\* Leaving Examine mode keeps the selection.
ExamineMode_keep_selection(m) == m

\* ExamineMode.on_deactivate
ExamineMode_on_deactivate(m) ==
    [m EXCEPT !._selected_coords = None, !._original_text = None]

\* ExamineMode._deselect: the selection is cleared and the text widget emptied.
ExamineMode_deselect(m) == ExamineState(None, None, <<>>)

\* What _save_and_deselect stores for the content of the text widget.
SavedText(text) ==
    LET stripped == RStripChars(text, Whitespace)
    IN  TextOrNone(SubSeq(stripped, 1, SetMin({Len(stripped), MAX_EXAMINE_LENGTH})))

\* SpawnMode: the selection, what the two entries hold, and whether the two
\* buttons are enabled.
SpawnState(selected_coords, name, respawn, save_btn, delete_btn) ==
    [_selected_coords |-> selected_coords, name |-> name, respawn |-> respawn,
     save_btn |-> save_btn, delete_btn |-> delete_btn]

RESPAWN_DEFAULT == <<"1", "0", "0">>

\* SpawnMode.__init__, and the widgets as build_panel makes them.
NewSpawn == SpawnState(None, <<>>, RESPAWN_DEFAULT, FALSE, FALSE)

\* SpawnMode.on_activate
SpawnMode_on_activate(m) == [m EXCEPT !._selected_coords = None]

\* SpawnMode.on_deactivate
SpawnMode_on_deactivate(m) == [m EXCEPT !._selected_coords = None]

\* The widgets of the mode panels that take the keyboard.
PanelWidgets == {"_text_widget", "_name_entry", "_respawn_entry"}

\* The widget that has the keyboard once the panel is destroyed: a widget of
\* the panel loses it to the window.
FocusAfterDestroy(widget) == IF widget \in PanelWidgets THEN "root" ELSE widget

\* width & (width - 1) == 0, for the width of an image.
IsPowerOfTwo(width) == \E k \in 0..16 : width = 2 ^ k

\* The checks of _load_atlas on the image it opened.
AtlasAccepted(img) ==
    /\ img.opens
    /\ img.width = img.height
    /\ IsPowerOfTwo(img.width)
    /\ img.width % SPRITE_SIZE = 0

\* The indices _load_atlas cuts the image into.
AtlasIndices(img) ==
    LET tiles_per_row == img.width \div SPRITE_SIZE
    IN  0..(tiles_per_row * tiles_per_row - 1)

\* ------------------------------------------------------------------------
\* Tile defaults: load_tile_defaults (src/mapper/tile_defaults.py)
\* ------------------------------------------------------------------------

\* TileDefaults(blocked=..., examine_text=...)
TileDefaults(blocked, examine_text) ==
    [blocked |-> blocked, examine_text |-> examine_text]

EXT_TILES == <<".", "t", "i", "l", "e", "s">>

\* os.path.splitext(p)[0]: p up to its last dot, when that dot comes after
\* the last "/" and after a character of the file name that is not a dot.
SplitextBase(p) ==
    LET seps == {i \in 1..Len(p) : p[i] = "/"}
        dots == {i \in 1..Len(p) : p[i] = "."}
        sepIndex == IF seps = {} THEN 0 ELSE SetMax(seps)
        dotIndex == IF dots = {} THEN 0 ELSE SetMax(dots)
    IN  IF dotIndex > sepIndex
           /\ \E i \in (sepIndex + 1)..(dotIndex - 1) : p[i] # "."
        THEN SubSeq(p, 1, dotIndex - 1)
        ELSE p

\* The sidecar is looked for at the atlas path with ".tiles" appended.
AppendTilesExt(atlas_path) == atlas_path \o EXT_TILES

get_defaults_path(atlas_path) == SplitextBase(atlas_path) \o EXT_TILES

\* One print(f"Warning {tiles_path}:{line_num}: ...") on standard output.
DefaultsWarning(tiles_path, line_num, msg) ==
    [path |-> tiles_path, line_num |-> line_num, msg |-> msg]

\* parts = line.split("\t")
DefaultsParts(line) == Split(line, TAB)

\* int(parts[1]) succeeds.
BlockedFieldOk(field) == IsInt(field)

\* print(f"Warning {tiles_path}:{line_num}: ..."), then on to the next line.
DefaultsWarn(st, tiles_path, line_num, msg) ==
    [st EXCEPT !.out = Append(@, DefaultsWarning(tiles_path, line_num, msg))]

\* The state of the loop of load_tile_defaults before the first line.
NewDefaults == [defaults |-> <<>>, out |-> <<>>, exc |-> NoExc]

\* One iteration of the for loop of load_tile_defaults over the raw line.
DefaultsLoopBody(st, raw, tiles_path, line_num) ==
    LET line == RStripChars(raw, {"\n", "\r"})
        stripped == Strip(line)
        parts == DefaultsParts(line)
    IN  IF IsIgnored(stripped)
        THEN st
        ELSE IF Len(parts) < 2
        THEN DefaultsWarn(st, tiles_path, line_num, "insufficient fields")
        ELSE IF ~(IsInt(parts[1]) /\ BlockedFieldOk(parts[2]))
        THEN DefaultsWarn(st, tiles_path, line_num, "failed to parse")
        ELSE LET index == IntValue(parts[1])
                 blocked == (IntValue(parts[2]) # 0)
                 examine_text == IF Len(parts) > 2 /\ parts[3] # <<>>
                                 THEN parts[3] ELSE None
             IN  [st EXCEPT !.defaults =
                     DictSet(@, index, TileDefaults(blocked, examine_text))]

RECURSIVE DefaultsFrom(_, _, _, _)
\* The for loop over the lines from number line_num on.
DefaultsFrom(st, lines, tiles_path, line_num) ==
    IF lines = <<>>
    THEN st
    ELSE DefaultsFrom(DefaultsLoopBody(st, Head(lines), tiles_path, line_num),
                      Tail(lines), tiles_path, line_num + 1)

\* load_tile_defaults(atlas_path) where the file at the defaults path has
\* the given content, None when there is no such file.
load_tile_defaults(atlas_path, content) ==
    IF content = None
    THEN NewDefaults
    ELSE DefaultsFrom(NewDefaults, FileLines(content),
                      get_defaults_path(atlas_path), 1)

\* ------------------------------------------------------------------------
\* Inputs
\* ------------------------------------------------------------------------

\* set(self.tile_images.keys()): the sprite indices of a 32x32 atlas of four
\* 16x16 sprites.
AtlasSprites == 0..3

\* A text one character longer than Examine mode stores.
LongText == [i \in 1..(MAX_EXAMINE_LENGTH + 1) |-> "z"]

\* The lines a map file is made of. Every line can occur in every section:
\*   ---                    the bare delimiter
\*   --- examine            the examine delimiter
\*   --- spawns             the spawns delimiter
\*   --- future             a delimiter naming a section this version does not know
\*    ---  spawns           the spawns delimiter with blanks before, within and after
\*   (empty)                a blank line
\*   #c                     a comment
\*   n:a                    a header line
\*   0<TAB>0<TAB>0<TAB>0    tile (0,0) sprite 0; as a spawn: name 0, 0 ticks; as examine text: 0<TAB>0
\*   -1<TAB>2<TAB>1<TAB>1   tile (-1,2) sprite 1, blocked; as a spawn: name 1, 1 tick
\*   0<TAB>0<TAB>7<TAB>0    a tile whose sprite 7 is not in the atlas
\*   0<TAB>x<TAB>a          three fields, y not an integer
\*   0<TAB>0<TAB>           an examine line with an empty text
\*   0<TAB>0<TAB>a<TAB>b    an examine line whose text holds a tab; sprite and ticks not integers
\*   1<TAB>1<TAB>r<TAB>5    a spawn where no tile line puts a tile
\*   0<TAB>0<TAB><TAB>5     a spawn with an empty name
\*   0<TAB>0<TAB>zzz...     an examine line with a text of 81 characters
LinePool ==
    { <<"-", "-", "-">>,
      <<"-", "-", "-", " ", "e", "x", "a", "m", "i", "n", "e">>,
      <<"-", "-", "-", " ", "s", "p", "a", "w", "n", "s">>,
      <<"-", "-", "-", " ", "f", "u", "t", "u", "r", "e">>,
      <<" ", "-", "-", "-", " ", " ", "s", "p", "a", "w", "n", "s", " ">>,
      <<>>,
      <<"#", "c">>,
      <<"n", ":", "a">>,
      <<"0", "\t", "0", "\t", "0", "\t", "0">>,
      <<"-", "1", "\t", "2", "\t", "1", "\t", "1">>,
      <<"0", "\t", "0", "\t", "7", "\t", "0">>,
      <<"0", "\t", "x", "\t", "a">>,
      <<"0", "\t", "0", "\t">>,
      <<"0", "\t", "0", "\t", "a", "\t", "b">>,
      <<"1", "\t", "1", "\t", "r", "\t", "5">>,
      <<"0", "\t", "0", "\t", "\t", "5">>,
      <<"0", "\t", "0", "\t">> \o LongText }

\* The lines of a file that has tiles and examine sections only:
\*   ---                    the bare delimiter
\*   --- examine            the examine delimiter
\*   0<TAB>0<TAB>0<TAB>0    tile (0,0) sprite 0
\*   0<TAB>0<TAB>3<TAB>1    tile (0,0) sprite 3, blocked
\*   -1<TAB>2<TAB>1<TAB>1   tile (-1,2) sprite 1, blocked
\*   0<TAB>0<TAB>7<TAB>0    tile (0,0) with sprite 7, which is not in the atlas
\*   0<TAB>0<TAB>a<TAB>b    an examine line for (0,0)
LongLinePool ==
    { <<"-", "-", "-">>,
      <<"-", "-", "-", " ", "e", "x", "a", "m", "i", "n", "e">>,
      <<"0", "\t", "0", "\t", "0", "\t", "0">>,
      <<"0", "\t", "0", "\t", "3", "\t", "1">>,
      <<"-", "1", "\t", "2", "\t", "1", "\t", "1">>,
      <<"0", "\t", "0", "\t", "7", "\t", "0">>,
      <<"0", "\t", "0", "\t", "a", "\t", "b">> }

\* The lines of a file of header lines, comments and blank lines:
\*   ---, --- examine, --- spawns, --- future    the delimiters
\*   (empty)                a blank line
\*   (blank)<TAB>           a line of whitespace
\*   #c                     a comment
\*    # x:y                 a comment after a blank, with a colon in it
\*   n:a                    a header line
\*   n:b                    the same key with another value
\*    k : v:w               blanks around key and value, a colon in the value
\*   x                      a header line without a colon
\*   0<TAB>0<TAB>0<TAB>0    a tile line
PlainLinePool ==
    { <<"-", "-", "-">>,
      <<"-", "-", "-", " ", "e", "x", "a", "m", "i", "n", "e">>,
      <<"-", "-", "-", " ", "s", "p", "a", "w", "n", "s">>,
      <<"-", "-", "-", " ", "f", "u", "t", "u", "r", "e">>,
      <<>>,
      <<" ", "\t">>,
      <<"#", "c">>,
      <<" ", "#", " ", "x", ":", "y">>,
      <<"n", ":", "a">>,
      <<"n", ":", "b">>,
      <<" ", "k", " ", ":", " ", "v", ":", "w", " ">>,
      <<"x">>,
      <<"0", "\t", "0", "\t", "0", "\t", "0">> }

\* The atlas paths save_map is given: none, or d/t.
AtlasPaths == {None, <<"d", "/", "t">>}

\* The dicts of at most n entries with keys in K and values in V, in every
\* insertion order.
DictsOver(K, V, n) ==
    UNION { {d \in [1..m -> K \X V] :
                \A i, j \in 1..m : i # j => d[i][1] # d[j][1]} : m \in 0..n }

\* Coordinates of the editor's world: negative and positive, two with the
\* same x, one of two digits.
CoordPool == {<<-1, 2>>, <<2, -1>>, <<2, 0>>, <<10, 0>>}

\* Tiles as the editor holds them: painted only; blocked, with a text that
\* holds a tab and ends in a space (Examine mode cuts a long text at 80
\* characters after trimming it); with a text of two lines (the text
\* widget is a multi-line tk.Text); with a text of two lines, the second
\* with tabs in it.
TilePool ==
    { Tile(0, FALSE),
      [sprite |-> 3, blocked |-> TRUE, examine_text |-> <<"a", "\t", "b", " ">>],
      [sprite |-> 1, blocked |-> FALSE, examine_text |-> <<"a", "\n", "b">>],
      [sprite |-> 2, blocked |-> FALSE,
       examine_text |-> <<"a", "\n", "0", "\t", "0", "\t", "x">>] }

\* The maps save_map is given.
TileDicts == DictsOver(CoordPool, TilePool, MaxTiles)

\* The spawns save_map is given: none; one; two, inserted in descending
\* order, one of them where no tile need be; one whose name holds a tab
\* (SpawnMode strips the ends of the name only).
SpawnDicts ==
    { <<>>,
      << <<<<2, 0>>, MonsterSpawn(<<"r">>, 100)>> >>,
      << <<<<2, 0>>, MonsterSpawn(<<"r", " ", "s">>, 1)>>,
         <<<<-1, 2>>, MonsterSpawn(<<"r">>, 12)>> >>,
      << <<<<2, -1>>, MonsterSpawn(<<"a", "\t", "b">>, 5)>> >> }

\* What the file at the save path holds beforehand: there is none, or x.
DiskContents == {None, <<"x", "\n">>}

\* The lines a .tiles sidecar is made of:
\*   (empty)                a blank line
\*   #c                     a comment
\*   0<TAB>1<TAB>A<TAB>B    sprite 0, blocked, four fields
\*   0<TAB>0<TAB>G          sprite 0, not blocked, text G
\*   1<TAB>1                sprite 1, blocked, no third field
\*   1<TAB>0<TAB>           sprite 1, an empty third field
\*   x<TAB>1<TAB>a          an index that is not an integer
\*   2<TAB>2<TAB>w          a blocked field that is an integer but not 0 or 1
\*   3                      one field
\*   0<TAB>y                a blocked field that is not an integer
DefaultsLinePool ==
    { <<>>,
      <<"#", "c">>,
      <<"0", "\t", "1", "\t", "A", "\t", "B">>,
      <<"0", "\t", "0", "\t", "G">>,
      <<"1", "\t", "1">>,
      <<"1", "\t", "0", "\t">>,
      <<"x", "\t", "1", "\t", "a">>,
      <<"2", "\t", "2", "\t", "w">>,
      <<"3">>,
      <<"0", "\t", "y">> }

\* The atlas paths load_tile_defaults is given: an extension to replace;
\* none; a dot in the directory only; a file name that is all extension.
DefaultsAtlasPaths ==
    { <<"d", "/", "t", ".", "p", "n", "g">>,
      <<"t">>,
      <<"a", ".", "b", "/", "t">>,
      <<".", "p", "n", "g">> }

\* The paths at which a file may lie next to those atlases.
SidecarPaths ==
    { <<"d", "/", "t", ".", "t", "i", "l", "e", "s">>,
      <<"d", "/", "t", ".", "p", "n", "g", ".", "t", "i", "l", "e", "s">>,
      <<"t", ".", "t", "i", "l", "e", "s">>,
      <<"a", ".", "b", "/", "t", ".", "t", "i", "l", "e", "s">>,
      <<"a", ".", "t", "i", "l", "e", "s">>,
      <<".", "p", "n", "g", ".", "t", "i", "l", "e", "s">>,
      <<".", "t", "i", "l", "e", "s">> }

\* The files there are: none, or one of them.
ExistingFiles == {{}} \cup {{p} : p \in SidecarPaths}

\* The files the dialog of Load Atlas can be pointed at: one that
\* Image.open raises on, and images by size: 32x32 and 16x16 are accepted,
\* the others are not square, not a power of two, smaller than a sprite.
AtlasImages ==
    { [opens |-> FALSE, width |-> 0, height |-> 0],
      [opens |-> TRUE, width |-> 32, height |-> 32],
      [opens |-> TRUE, width |-> 16, height |-> 16],
      [opens |-> TRUE, width |-> 32, height |-> 16],
      [opens |-> TRUE, width |-> 48, height |-> 48],
      [opens |-> TRUE, width |-> 8, height |-> 8] }

\* The path of the atlas the editor loads.
EditorAtlasPath == <<"d", "/", "t", ".", "p", "n", "g">>

\* The sidecar next to that atlas: none, or one that gives sprite 0
\* blocked with text G and sprite 1 not blocked without text.
SidecarFiles ==
    { None,
      <<"0", "\t", "1", "\t", "G", "\n", "1", "\t", "0", "\n">> }

\* The map files the dialog of Load Map can be pointed at:
\*   an empty file;
\*   tiles (0,0) and (1,1), a text on (0,0), a spawn on (1,1);
\*   one tile (0,0) of sprite 3, blocked, no spawn;
\*   a tile line with sprite 7, and a spawn.
MapFiles ==
    { <<>>,
      <<"-", "-", "-", "\n", "0", "\t", "0", "\t", "0", "\t", "0", "\n", "1", "\t", "1", "\t", "1", "\t", "1", "\n", "-", "-", "-", " ", "e", "x", "a", "m", "i", "n", "e", "\n", "0", "\t", "0", "\t", "h", "i", "\n", "-", "-", "-", " ", "s", "p", "a", "w", "n", "s", "\n", "1", "\t", "1", "\t", "r", "\t", "5", "\n">>,
      <<"-", "-", "-", "\n", "0", "\t", "0", "\t", "3", "\t", "1", "\n">>,
      <<"-", "-", "-", "\n", "0", "\t", "0", "\t", "7", "\t", "0", "\n", "-", "-", "-", " ", "s", "p", "a", "w", "n", "s", "\n", "0", "\t", "0", "\t", "s", "\t", "9", "\n">> }

\* The palette cells that are clicked: cell 1, which a 32x32 atlas has and
\* a 16x16 atlas has not, and cell 4, which neither has.
PaletteCells == {1, 4}

\* The path of the map file the editor loads.
MapPath == <<"m">>

\* The world coordinates the map canvas is clicked at: two inside the
\* world, one beyond its edge.
ClickCoords == {<<0, 0>>, <<1, 1>>, <<512, 0>>}

\* The world coordinates the map canvas is clicked at while the modes are
\* switched: (0, 0) in every mode, (1, 1) in every mode but Paint, so that
\* there is never a tile.
ModeClicks == {<<0, 0>>, <<1, 1>>}

PaintClicks == {<<0, 0>>}

\* The atlas image loaded while the modes are switched: 32x32.
ModeAtlas == [opens |-> TRUE, width |-> 32, height |-> 32]

\* The map files loaded while the modes are switched: an empty one, and one
\* with a tile at (0, 0), of sprite 3, blocked.
ModeMapFiles == {<<>>, <<"-", "-", "-", "\n", "0", "\t", "0", "\t", "3", "\t", "1", "\n">>}

\* The names set_mode is called with: the registered ones, and character,
\* which _setup_modes does not register.
ModeNames == {"paint", "blocked", "examine", "spawn", "character"}

\* The keys pressed: the hotkey of Examine mode, with Shift, and a key that
\* is no hotkey.
Keys == {"E", "c"}

\* What the text widget holds after the user's edit: G and a blank.
TextEdits == {<<"G", " ">>}

\* What the user makes of the name entry: a blank and e.
NameEdits == {<<" ", "e">>}

\* What the user makes of the respawn entry: 0, or 7 and a blank.
RespawnEdits == {<<"0">>, <<"7", " ">>}

\* ------------------------------------------------------------------------
\* State
\* ------------------------------------------------------------------------

VARIABLES
    \* _parse_map_file at work on a file
    line_num,         \* the number of the line last read, 0 before the first
    line,             \* the line last read, None before the first
    current_section,  \* None in the header, else the section's name
    header,           \* data.header
    data_tiles,       \* data.tiles
    data_spawns,      \* data.spawns
    stdout,           \* the warnings printed so far
    status,           \* "reading", "returned", "raised", "reencoded"
    twin,             \* _parse_map_file on the same file without the lines
                      \* of its unknown sections
    reenc,            \* the MapData read back from a save of data, or None
    tiles_before,     \* data.tiles as the line last read found it, where that
                      \* is watched; else None
    \* the editor's map and the file it saves to and loads from
    tiles,            \* Mapper.tiles
    spawns,           \* Mapper.spawns
    atlas_path,       \* Mapper.atlas_path
    disk,             \* the content of the file at path, None when there is none
    f_written,        \* the lines the last save_map wrote
    save_exc,         \* what the last save_map raised
    loaded,           \* the MapData of the last load_map, or None
    phase,            \* "edit", "saved", "loaded"
    \* load_tile_defaults at work
    existing,         \* the paths at which there is a file
    tiles_path,       \* the path it looks at, None before the call
    td_line_num,      \* the number of the sidecar line last read
    td_line,          \* the sidecar line last read, None before the first
    defaults,         \* the dict it builds
    td_stdout,        \* the warnings it printed
    td_status,        \* "idle", "reading", "returned"
    \* the editor
    tile_images,      \* the keys of Mapper.tile_images
    brush,            \* Mapper.brush
    sidecar,          \* the content of the .tiles file next to the atlas, or None
    op,               \* the last operation of the editor: what it came to and,
                      \* for Load Map, the tiles and spawns it was called on
    \* the editor's modes
    current_mode_name,  \* Mapper._current_mode_name
    examine_mode,     \* the ExamineMode object and its text widget
    spawn_mode,       \* the SpawnMode object and its entries and buttons
    focus,            \* root.focus_get(): the widget that has the keyboard
    calls,            \* the hooks the last set_mode ran, in order
    edited            \* the text widget was edited since a tile was selected,
                      \* and the edit neither saved nor discarded

parse_vars ==
    <<line_num, line, current_section, header, data_tiles, data_spawns, stdout,
      status, twin, reenc, tiles_before>>

save_vars == <<tiles, spawns, atlas_path, disk, f_written, save_exc, loaded, phase>>

defaults_vars ==
    <<existing, tiles_path, td_line_num, td_line, defaults, td_stdout, td_status>>

mode_vars == <<current_mode_name, examine_mode, spawn_mode, focus, calls, edited>>

edit_vars == <<tile_images, brush, sidecar, op, mode_vars>>

vars == <<parse_vars, save_vars, defaults_vars, edit_vars>>

\* The local state of _parse_map_file as one record.
ParseState ==
    [current_section |-> current_section, header |-> header, tiles |-> data_tiles,
     spawns |-> data_spawns, out |-> stdout, exc |-> NoExc]

\* A section name the dispatch has no branch for.
UnknownSection(section) ==
    section # None /\ section \notin {SecTiles, SecExamine, SecSpawns}

\* A line that is not a section delimiter (a blank line or a comment is
\* none either).
NonDelimiter(raw) ==
    LET stripped == Strip(ChompLine(raw))
    IN  IsIgnored(stripped) \/ ~IsDelimiter(stripped)

ParseInit ==
    /\ line_num = 0
    /\ line = None
    /\ current_section = None
    /\ header = <<>>
    /\ data_tiles = <<>>
    /\ data_spawns = <<>>
    /\ stdout = <<>>
    /\ status = "reading"
    /\ twin = [st |-> NewParse, line_num |-> 0]
    /\ reenc = None
    /\ tiles_before = None

SaveIdle ==
    /\ tiles = <<>>
    /\ spawns = <<>>
    /\ atlas_path = None
    /\ disk = None
    /\ f_written = <<>>
    /\ save_exc = NoExc
    /\ loaded = None
    /\ phase = "edit"

\* What an operation of the editor came to and, for Load Map, the tiles and
\* spawns it was called on.
Outcome(name, tiles_then, spawns_then) ==
    [name |-> name, tiles |-> tiles_then, spawns |-> spawns_then]

\* load_tile_defaults is not called.
DefaultsIdle ==
    /\ existing = {}
    /\ tiles_path = None
    /\ td_line_num = 0
    /\ td_line = None
    /\ defaults = <<>>
    /\ td_stdout = <<>>
    /\ td_status = "idle"

\* Mapper._setup_modes: the four modes are made and set_mode("paint") is
\* called with no mode current.
ModesIdle ==
    /\ current_mode_name = "paint"
    /\ examine_mode = NewExamine
    /\ spawn_mode = NewSpawn
    /\ focus = "root"
    /\ calls = <<<<"paint", "on_activate">>>>
    /\ edited = FALSE

\* Mapper.__init__: no atlas, brush 0.
EditorIdle ==
    /\ tile_images = {}
    /\ brush = 0
    /\ sidecar = None
    /\ op = Outcome("init", <<>>, <<>>)
    /\ ModesIdle

Init == ParseInit /\ SaveIdle /\ DefaultsIdle /\ EditorIdle

\* The for loop reads the next line of a file of at most `limit` lines and
\* runs its body on it.
ReadNext(raw, limit) ==
    /\ status = "reading"
    /\ line_num < limit
    /\ LET st == LoopBody(ParseState, raw, line_num + 1, AtlasSprites)
       IN  /\ line_num' = line_num + 1
           /\ line' = raw
           /\ current_section' = st.current_section
           /\ header' = st.header
           /\ data_tiles' = st.tiles
           /\ data_spawns' = st.spawns
           /\ stdout' = st.out
           /\ status' = IF st.exc # NoExc THEN "raised" ELSE "reading"
    /\ twin' = IF UnknownSection(current_section) /\ NonDelimiter(raw)
               THEN twin
               ELSE [st |-> LoopBody(twin.st, raw, twin.line_num + 1, AtlasSprites),
                     line_num |-> twin.line_num + 1]
    /\ UNCHANGED <<reenc, save_vars, defaults_vars, edit_vars>>

\* The next line of a file of at most MaxLines lines.
ReadLine(raw) == ReadNext(raw, MaxLines) /\ UNCHANGED tiles_before

\* The next line of a file of at most MaxPlainLines lines.
ReadPlainLine(raw) == ReadNext(raw, MaxPlainLines) /\ UNCHANGED tiles_before

\* The next line of a file of at most MaxLongLines lines, with data.tiles
\* kept as the line found it.
ReadLongLine(raw) == ReadNext(raw, MaxLongLines) /\ tiles_before' = data_tiles

\* The file ends: return data.
Return ==
    /\ status = "reading"
    /\ status' = "returned"
    /\ UNCHANGED <<line_num, line, current_section, header, data_tiles, data_spawns,
                   stdout, twin, reenc, tiles_before, save_vars, defaults_vars,
                   edit_vars>>

\* The decoded map is saved with save_map and the file is loaded again.
Reencode ==
    /\ status = "returned"
    /\ data_tiles # <<>>
    /\ LET saved == save_map(data_tiles, data_spawns, atlas_path, None)
           again == _parse_map_file(saved.content, AtlasSprites)
       IN  reenc' = [tiles |-> again.tiles, spawns |-> again.spawns,
                     out |-> again.out, exc |-> again.exc]
    /\ status' = "reencoded"
    /\ UNCHANGED <<line_num, line, current_section, header, data_tiles, data_spawns,
                   stdout, twin, tiles_before, save_vars, defaults_vars, edit_vars>>

Next ==
    \/ \E raw \in LinePool : ReadLine(raw)
    \/ Return

\* The decoder fed any file of at most MaxLines lines.
Spec == Init /\ [][Next]_vars

NextRecode ==
    \/ \E raw \in LinePool : ReadLine(raw)
    \/ Return
    \/ Reencode

\* The decoder, and its result saved and loaded again.
SpecRecode == Init /\ [][NextRecode]_vars

NextPlain ==
    \/ \E raw \in PlainLinePool : ReadPlainLine(raw)
    \/ Return

\* The decoder fed any file of at most MaxPlainLines lines among header
\* lines, comments, blank lines and delimiters.
SpecPlain == Init /\ [][NextPlain]_vars

NextLong ==
    \/ \E raw \in LongLinePool : ReadLongLine(raw)
    \/ Return

\* The decoder fed any file of at most MaxLongLines lines of the tiles and
\* examine sections.
SpecLong == Init /\ [][NextLong]_vars

\* ------------------------------------------------------------------------
\* Saving and loading the editor's map
\* ------------------------------------------------------------------------

ParseIdle ==
    /\ line_num = 0
    /\ line = None
    /\ current_section = None
    /\ header = <<>>
    /\ data_tiles = <<>>
    /\ data_spawns = <<>>
    /\ stdout = <<>>
    /\ status = "idle"
    /\ twin = None
    /\ reenc = None
    /\ tiles_before = None

InitSave ==
    /\ ParseIdle
    /\ DefaultsIdle
    /\ EditorIdle
    /\ tiles \in TileDicts
    /\ spawns \in SpawnDicts
    /\ atlas_path \in AtlasPaths
    /\ disk \in DiskContents
    /\ f_written = <<>>
    /\ save_exc = NoExc
    /\ loaded = None
    /\ phase = "edit"

\* save_map(path, self.tiles, self.spawns, self.atlas_path), called by any
\* caller, whatever the map.
SaveMap ==
    /\ phase = "edit"
    /\ LET r == save_map(tiles, spawns, atlas_path, disk)
       IN  /\ disk' = r.content
           /\ f_written' = r.written
           /\ save_exc' = r.exc
    /\ phase' = "saved"
    /\ UNCHANGED <<tiles, spawns, atlas_path, loaded, parse_vars, defaults_vars, edit_vars>>

\* Mapper._save_map with a path chosen in the dialog: an empty map is
\* refused with a message box before save_map is called.
MapperSaveMap ==
    /\ phase = "edit"
    /\ IF tiles = <<>>
       THEN /\ phase' = "refused"
            /\ UNCHANGED <<disk, f_written, save_exc>>
       ELSE /\ LET r == save_map(tiles, spawns, atlas_path, disk)
               IN  /\ disk' = r.content
                   /\ f_written' = r.written
                   /\ save_exc' = r.exc
            /\ phase' = "saved"
    /\ UNCHANGED <<tiles, spawns, atlas_path, loaded, parse_vars, defaults_vars, edit_vars>>

\* load_map(path, valid_sprite_indices) of the file just saved.
LoadMap ==
    /\ phase = "saved"
    /\ save_exc = NoExc
    /\ disk # None
    /\ loaded' = _parse_map_file(disk, AtlasSprites)
    /\ phase' = "loaded"
    /\ UNCHANGED <<tiles, spawns, atlas_path, disk, f_written, save_exc, parse_vars,
                   defaults_vars, edit_vars>>

NextSave ==
    \/ SaveMap
    \/ MapperSaveMap
    \/ LoadMap

\* Any map of at most MaxTiles tiles saved, and the file loaded again.
SpecSave == InitSave /\ [][NextSave]_vars

\* ------------------------------------------------------------------------
\* Loading the tile defaults of an atlas
\* ------------------------------------------------------------------------

InitDefaults ==
    /\ ParseIdle
    /\ SaveIdle
    /\ EditorIdle
    /\ existing \in ExistingFiles
    /\ tiles_path = None
    /\ td_line_num = 0
    /\ td_line = None
    /\ defaults = <<>>
    /\ td_stdout = <<>>
    /\ td_status = "idle"

\* load_tile_defaults(atlas_path) up to the open: return {} when there is
\* no file at the defaults path.
OpenDefaults(path) ==
    /\ td_status = "idle"
    /\ atlas_path' = path
    /\ tiles_path' = get_defaults_path(path)
    /\ td_status' = IF get_defaults_path(path) \in existing
                    THEN "reading" ELSE "returned"
    /\ UNCHANGED <<existing, td_line_num, td_line, defaults, td_stdout>>
    /\ UNCHANGED <<tiles, spawns, disk, f_written, save_exc, loaded, phase,
                   parse_vars, edit_vars>>

\* The for loop reads the next line of the sidecar and runs its body on it.
ReadDefaultsLine(raw) ==
    /\ td_status = "reading"
    /\ td_line_num < MaxDefaultsLines
    /\ LET st == DefaultsLoopBody([defaults |-> defaults, out |-> td_stdout,
                                   exc |-> NoExc],
                                  raw, tiles_path, td_line_num + 1)
       IN  /\ defaults' = st.defaults
           /\ td_stdout' = st.out
    /\ td_line_num' = td_line_num + 1
    /\ td_line' = raw
    /\ UNCHANGED <<existing, tiles_path, td_status, parse_vars, save_vars, edit_vars>>

\* The sidecar ends: return defaults.
ReturnDefaults ==
    /\ td_status = "reading"
    /\ td_status' = "returned"
    /\ UNCHANGED <<existing, tiles_path, td_line_num, td_line, defaults, td_stdout,
                   parse_vars, save_vars, edit_vars>>

NextDefaults ==
    \/ \E path \in DefaultsAtlasPaths : OpenDefaults(path)
    \/ \E raw \in DefaultsLinePool : ReadDefaultsLine(raw \o <<NL>>)
    \/ ReturnDefaults

\* load_tile_defaults on any atlas path and any sidecar of at most
\* MaxDefaultsLines lines.
SpecDefaults == InitDefaults /\ [][NextDefaults]_vars

\* ------------------------------------------------------------------------
\* The editor: Load Atlas, the palette, painting, Load Map
\* ------------------------------------------------------------------------

InitEdit ==
    /\ ParseIdle
    /\ SaveIdle
    /\ DefaultsIdle
    /\ tile_images = {}
    /\ brush = 0
    /\ sidecar \in SidecarFiles
    /\ op = Outcome("init", <<>>, <<>>)
    /\ ModesIdle

\* Mapper._rebuild_panel, for the mode objects as they are by then: the
\* panel is destroyed and the current mode builds a new one, so the text
\* widget is empty, the entries hold nothing and 100, and the buttons are
\* disabled, while the selections are as they were.
_rebuild_panel(examine_then, spawn_then) ==
    /\ examine_mode' = [examine_then EXCEPT !.text = NewExamine.text]
    /\ spawn_mode' = [spawn_then EXCEPT !.name = NewSpawn.name,
                                       !.respawn = NewSpawn.respawn,
                                       !.save_btn = FALSE,
                                       !.delete_btn = FALSE]
    /\ focus' = FocusAfterDestroy(focus)

\* Mapper._load_atlas: the dialog gives path (empty when cancelled) and
\* Image.open gives img, or raises.
_load_atlas(path, img) ==
    /\ IF path = <<>>
       THEN /\ op' = Outcome("atlas_cancelled", <<>>, <<>>)
            /\ UNCHANGED <<atlas_path, tile_images, brush, mode_vars>>
       ELSE IF ~AtlasAccepted(img)
       THEN /\ op' = Outcome("atlas_error", <<>>, <<>>)
            /\ UNCHANGED <<atlas_path, tile_images, brush, mode_vars>>
       ELSE /\ atlas_path' = path
            /\ tile_images' = AtlasIndices(img)
            /\ brush' = 0
            /\ _rebuild_panel(examine_mode, spawn_mode)
            /\ op' = Outcome("atlas_loaded", <<>>, <<>>)
            /\ UNCHANGED <<current_mode_name, calls, edited>>
    /\ UNCHANGED <<tiles, spawns, disk, f_written, save_exc, loaded, phase, sidecar,
                   parse_vars, defaults_vars>>

\* PaintTileMode._on_palette_click on the palette cell of index idx.
_on_palette_click(idx) ==
    /\ current_mode_name = "paint"
    /\ brush' = IF tile_images # {} /\ idx \in tile_images THEN idx ELSE brush
    /\ op' = Outcome("palette", <<>>, <<>>)
    /\ UNCHANGED <<tile_images, sidecar, mode_vars, save_vars, parse_vars, defaults_vars>>

\* Painting puts a new tile at the coordinate, whatever was there.
_paint_tile_anew(tile_x, tile_y) ==
    LET coords == <<tile_x, tile_y>>
        in_world == /\ -WORLD_OFFSET <= tile_x /\ tile_x < WORLD_OFFSET
                    /\ -WORLD_OFFSET <= tile_y /\ tile_y < WORLD_OFFSET
    IN  /\ current_mode_name = "paint"
        /\ IF tile_images = {} \/ ~in_world
           THEN /\ op' = Outcome("paint_ignored", <<>>, <<>>)
                /\ UNCHANGED tiles
           ELSE IF DictHas(tiles, coords) /\ DictGet(tiles, coords).sprite = brush
           THEN /\ op' = Outcome("paint_same", <<>>, <<>>)
                /\ UNCHANGED tiles
           ELSE /\ tiles' = DictSet(tiles, coords, Tile(brush, FALSE))
                /\ op' = Outcome(IF DictHas(tiles, coords) THEN "repainted"
                                 ELSE "painted", <<>>, <<>>)
        /\ UNCHANGED <<spawns, atlas_path, disk, f_written, save_exc, loaded, phase,
                       tile_images, brush, sidecar, mode_vars, parse_vars,
                       defaults_vars>>

\* PaintTileMode._paint_tile(tile_x, tile_y), on a click or a drag on the
\* map in Paint mode. (editor.tile_images[editor.brush] finds its key:
\* _load_atlas sets brush to 0, the palette sets it to a key.)
_paint_tile(tile_x, tile_y) ==
    LET coords == <<tile_x, tile_y>>
        in_world == /\ -WORLD_OFFSET <= tile_x /\ tile_x < WORLD_OFFSET
                    /\ -WORLD_OFFSET <= tile_y /\ tile_y < WORLD_OFFSET
    IN  /\ current_mode_name = "paint"
        /\ IF tile_images = {} \/ ~in_world
           THEN /\ op' = Outcome("paint_ignored", <<>>, <<>>)
                /\ UNCHANGED tiles
           ELSE IF DictHas(tiles, coords) /\ DictGet(tiles, coords).sprite = brush
           THEN /\ op' = Outcome("paint_same", <<>>, <<>>)
                /\ UNCHANGED tiles
           ELSE IF DictHas(tiles, coords)
           THEN /\ tiles' = DictSet(tiles, coords,
                                    [DictGet(tiles, coords) EXCEPT !.sprite = brush])
                /\ op' = Outcome("repainted", <<>>, <<>>)
           ELSE /\ tiles' = DictSet(tiles, coords, Tile(brush, FALSE))
                /\ op' = Outcome("painted", <<>>, <<>>)
        /\ UNCHANGED <<spawns, atlas_path, disk, f_written, save_exc, loaded, phase,
                       tile_images, brush, sidecar, mode_vars, parse_vars,
                       defaults_vars>>

\* Mapper._load_map: the dialog gives path (empty when cancelled); the file
\* there has the content `file`, or cannot be opened (None).
_load_map(path, file) ==
    /\ IF tile_images = {}
       THEN /\ op' = Outcome("no_atlas", tiles, spawns)
            /\ UNCHANGED <<tiles, spawns, loaded>>
       ELSE IF path = <<>>
       THEN /\ op' = Outcome("load_cancelled", tiles, spawns)
            /\ UNCHANGED <<tiles, spawns, loaded>>
       ELSE IF file = None
       THEN /\ op' = Outcome("load_failed", tiles, spawns)
            /\ UNCHANGED <<tiles, spawns, loaded>>
       ELSE LET map_data == _parse_map_file(file, tile_images)
            IN  /\ tiles' = DictUpdate(DictClear(tiles), map_data.tiles)
                /\ spawns' = DictUpdate(DictClear(spawns), map_data.spawns)
                /\ loaded' = map_data
                /\ op' = Outcome("map_loaded", tiles, spawns)
    /\ UNCHANGED <<atlas_path, disk, f_written, save_exc, phase, tile_images, brush,
                   sidecar, mode_vars, parse_vars, defaults_vars>>

NextEdit ==
    \/ \E path \in {<<>>, EditorAtlasPath}, img \in AtlasImages : _load_atlas(path, img)
    \/ \E idx \in PaletteCells : _on_palette_click(idx)
    \/ \E coords \in ClickCoords : _paint_tile(coords[1], coords[2])
    \/ \E path \in {<<>>, MapPath}, file \in MapFiles \cup {None} : _load_map(path, file)

\* The editor from its start, under any sequence of these operations.
SpecEdit == InitEdit /\ [][NextEdit]_vars

\* ------------------------------------------------------------------------
\* The editor's modes (src/mapper/editor.py, modes/*.py)
\* ------------------------------------------------------------------------

\* What the mode operations leave alone.
map_files == <<atlas_path, disk, f_written, save_exc, loaded, phase, tile_images,
               brush, sidecar, parse_vars, defaults_vars>>

\* The hooks set_mode runs: the current mode is left, then the new one entered.
ModeHooks(old_name, new_name) ==
    <<<<old_name, "on_deactivate">>, <<new_name, "on_activate">>>>

\* Mapper.set_mode(name)
set_mode(name) ==
    /\ IF name \notin _modes
       THEN /\ op' = Outcome("mode_unknown", <<>>, <<>>)
            /\ UNCHANGED mode_vars
       ELSE LET examine_left == IF current_mode_name = "examine"
                                THEN ExamineMode_on_deactivate(examine_mode)
                                ELSE examine_mode
                spawn_left == IF current_mode_name = "spawn"
                              THEN SpawnMode_on_deactivate(spawn_mode)
                              ELSE spawn_mode
                examine_entered == IF name = "examine"
                                   THEN ExamineMode_on_activate(examine_left)
                                   ELSE examine_left
                spawn_entered == IF name = "spawn"
                                 THEN SpawnMode_on_activate(spawn_left)
                                 ELSE spawn_left
            IN  /\ calls' = ModeHooks(current_mode_name, name)
                /\ current_mode_name' = name
                /\ _rebuild_panel(examine_entered, spawn_entered)
                /\ op' = Outcome("mode_set", <<>>, <<>>)
                /\ UNCHANGED edited
    /\ UNCHANGED <<tiles, spawns, map_files>>

\* Mapper._on_key, for a key other than Return and Escape in a widget that
\* binds them: nothing while a text or entry widget has the keyboard, else
\* the mode of the hotkey is set.
_on_key(char) ==
    IF focus \in PanelWidgets
    THEN /\ op' = Outcome("key_in_widget", <<>>, <<>>)
         /\ UNCHANGED <<tiles, spawns, map_files, mode_vars>>
    ELSE IF Lower(char) \in DOMAIN _mode_keys
    THEN set_mode(_mode_keys[Lower(char)])
    ELSE /\ op' = Outcome("key_unbound", <<>>, <<>>)
         /\ UNCHANGED <<tiles, spawns, map_files, mode_vars>>

\* The user clicks into a widget of the current panel, which takes the
\* keyboard.
FocusIn(widget) ==
    /\ \/ current_mode_name = "examine" /\ widget = "_text_widget"
       \/ current_mode_name = "spawn" /\ widget \in {"_name_entry", "_respawn_entry"}
    /\ focus' = widget
    /\ op' = Outcome("focus", <<>>, <<>>)
    /\ UNCHANGED <<tiles, spawns, map_files, current_mode_name, examine_mode,
                   spawn_mode, calls, edited>>

\* BlockedMode._toggle_blocked(tile_x, tile_y), on a click on the map in
\* Blocked mode.
_toggle_blocked(tile_x, tile_y) ==
    LET coords == <<tile_x, tile_y>>
    IN  /\ current_mode_name = "blocked"
        /\ IF ~DictHas(tiles, coords)
           THEN /\ op' = Outcome("blocked_no_tile", <<>>, <<>>)
                /\ UNCHANGED tiles
           ELSE /\ tiles' = DictSet(tiles, coords,
                                    [DictGet(tiles, coords) EXCEPT
                                        !.blocked = ~DictGet(tiles, coords).blocked])
                /\ op' = Outcome("blocked_toggled", <<>>, <<>>)
        /\ UNCHANGED <<spawns, map_files, mode_vars>>

\* ExamineMode.on_map_click(world_x, world_y)
ExamineMode_on_map_click(world_x, world_y) ==
    LET coords == <<world_x, world_y>>
    IN  /\ current_mode_name = "examine"
        /\ IF ~DictHas(tiles, coords)
           THEN /\ op' = Outcome("examine_no_tile", <<>>, <<>>)
                /\ UNCHANGED <<examine_mode, focus, edited>>
           ELSE LET tile == DictGet(tiles, coords)
                    loaded_text == IF tile.examine_text \notin {None, <<>>}
                                   THEN tile.examine_text ELSE <<>>
                IN  /\ examine_mode' = ExamineState(coords, tile.examine_text, loaded_text)
                    /\ focus' = "_text_widget"
                    /\ edited' = FALSE
                    /\ op' = Outcome("examine_selected", <<>>, <<>>)
        /\ UNCHANGED <<tiles, spawns, map_files, current_mode_name, spawn_mode, calls>>

\* ExamineMode._on_text_changed, on a key released in the text widget that
\* left it holding text: a text longer than the limit is cut.
_on_text_changed(text) ==
    LET stripped == RStripChars(text, Whitespace)
    IN  /\ current_mode_name = "examine"
        /\ focus = "_text_widget"
        /\ examine_mode' =
               [examine_mode EXCEPT
                   !.text = IF Len(stripped) > MAX_EXAMINE_LENGTH
                            THEN SubSeq(stripped, 1, MAX_EXAMINE_LENGTH)
                            ELSE text]
        /\ edited' = (examine_mode._selected_coords # None)
        /\ op' = Outcome("text_changed", <<>>, <<>>)
        /\ UNCHANGED <<tiles, spawns, map_files, current_mode_name, spawn_mode, focus,
                       calls>>

\* ExamineMode._save_and_deselect, on Return in the text widget.
_save_and_deselect ==
    /\ current_mode_name = "examine"
    /\ focus = "_text_widget"
    /\ IF examine_mode._selected_coords = None
       THEN /\ op' = Outcome("examine_nothing_selected", <<>>, <<>>)
            /\ UNCHANGED <<tiles, examine_mode, edited>>
       ELSE IF ~DictHas(tiles, examine_mode._selected_coords)
       THEN /\ op' = Outcome("examine_tile_gone", <<>>, <<>>)
            /\ UNCHANGED <<tiles, examine_mode, edited>>
       ELSE /\ tiles' = DictSet(tiles, examine_mode._selected_coords,
                                [DictGet(tiles, examine_mode._selected_coords) EXCEPT
                                    !.examine_text = SavedText(examine_mode.text)])
            /\ examine_mode' = ExamineMode_deselect(examine_mode)
            /\ edited' = FALSE
            /\ op' = Outcome("examine_saved", <<>>, <<>>)
    /\ UNCHANGED <<spawns, map_files, current_mode_name, spawn_mode, focus, calls>>

\* ExamineMode._discard_and_deselect, on Escape in the text widget.
_discard_and_deselect ==
    /\ current_mode_name = "examine"
    /\ focus = "_text_widget"
    /\ IF examine_mode._selected_coords = None
       THEN /\ op' = Outcome("examine_nothing_selected", <<>>, <<>>)
            /\ UNCHANGED <<examine_mode, edited>>
       ELSE /\ examine_mode' = ExamineMode_deselect(examine_mode)
            /\ edited' = FALSE
            /\ op' = Outcome("examine_discarded", <<>>, <<>>)
    /\ UNCHANGED <<tiles, spawns, map_files, current_mode_name, spawn_mode, focus,
                   calls>>

\* SpawnMode.on_map_click(world_x, world_y)
SpawnMode_on_map_click(world_x, world_y) ==
    LET coords == <<world_x, world_y>>
    IN  /\ current_mode_name = "spawn"
        /\ focus' = "map_canvas"
        /\ IF ~DictHas(tiles, coords)
           THEN /\ op' = Outcome("spawn_no_tile", <<>>, <<>>)
                /\ UNCHANGED spawn_mode
           ELSE /\ spawn_mode' =
                       IF DictHas(spawns, coords)
                       THEN SpawnState(coords, DictGet(spawns, coords).name,
                                       IntToStr(DictGet(spawns, coords).respawn_ticks),
                                       TRUE, TRUE)
                       ELSE SpawnState(coords, <<>>, RESPAWN_DEFAULT, TRUE, FALSE)
                /\ op' = Outcome("spawn_selected", <<>>, <<>>)
        /\ UNCHANGED <<tiles, spawns, map_files, current_mode_name, examine_mode, calls,
                       edited>>

\* The user edits the name entry, which then holds name.
EditName(name) ==
    /\ current_mode_name = "spawn"
    /\ focus = "_name_entry"
    /\ spawn_mode' = [spawn_mode EXCEPT !.name = name]
    /\ op' = Outcome("name_edited", <<>>, <<>>)
    /\ UNCHANGED <<tiles, spawns, map_files, current_mode_name, examine_mode, focus,
                   calls, edited>>

\* The user edits the respawn entry, which then holds respawn.
EditRespawn(respawn) ==
    /\ current_mode_name = "spawn"
    /\ focus = "_respawn_entry"
    /\ spawn_mode' = [spawn_mode EXCEPT !.respawn = respawn]
    /\ op' = Outcome("respawn_edited", <<>>, <<>>)
    /\ UNCHANGED <<tiles, spawns, map_files, current_mode_name, examine_mode, focus,
                   calls, edited>>

\* SpawnMode._unfocus, on Escape in one of the entries.
_unfocus ==
    /\ current_mode_name = "spawn"
    /\ focus \in {"_name_entry", "_respawn_entry"}
    /\ focus' = "map_canvas"
    /\ op' = Outcome("unfocus", <<>>, <<>>)
    /\ UNCHANGED <<tiles, spawns, map_files, current_mode_name, examine_mode,
                   spawn_mode, calls, edited>>

\* SpawnMode._save_spawn, on a click on the Save Spawn button while it is
\* enabled.
_save_spawn ==
    LET name == Strip(spawn_mode.name)
        respawn_str == Strip(spawn_mode.respawn)
    IN  /\ current_mode_name = "spawn"
        /\ spawn_mode.save_btn
        /\ IF spawn_mode._selected_coords = None
           THEN /\ op' = Outcome("spawn_nothing_selected", <<>>, <<>>)
                /\ UNCHANGED <<spawns, spawn_mode>>
           ELSE IF name = <<>>
           THEN /\ op' = Outcome("spawn_name_required", <<>>, <<>>)
                /\ UNCHANGED <<spawns, spawn_mode>>
           ELSE IF ~IsInt(respawn_str) \/ IntValue(respawn_str) < 1
           THEN /\ op' = Outcome("spawn_respawn_invalid", <<>>, <<>>)
                /\ UNCHANGED <<spawns, spawn_mode>>
           ELSE /\ spawns' = DictSet(spawns, spawn_mode._selected_coords,
                                     MonsterSpawn(name, IntValue(respawn_str)))
                /\ spawn_mode' = [spawn_mode EXCEPT !.save_btn = TRUE,
                                                    !.delete_btn = TRUE]
                /\ op' = Outcome("spawn_saved", <<>>, <<>>)
        /\ UNCHANGED <<tiles, map_files, current_mode_name, examine_mode, focus, calls,
                       edited>>

\* SpawnMode._delete_spawn, on a click on the Delete button while it is
\* enabled.
_delete_spawn ==
    /\ current_mode_name = "spawn"
    /\ spawn_mode.delete_btn
    /\ IF spawn_mode._selected_coords = None
       THEN /\ op' = Outcome("spawn_nothing_selected", <<>>, <<>>)
            /\ UNCHANGED <<spawns, spawn_mode>>
       ELSE IF ~DictHas(spawns, spawn_mode._selected_coords)
       THEN /\ op' = Outcome("spawn_none_here", <<>>, <<>>)
            /\ UNCHANGED <<spawns, spawn_mode>>
       ELSE /\ spawns' = DictDel(spawns, spawn_mode._selected_coords)
            /\ spawn_mode' = SpawnState(spawn_mode._selected_coords, <<>>,
                                        RESPAWN_DEFAULT, TRUE, FALSE)
            /\ op' = Outcome("spawn_deleted", <<>>, <<>>)
    /\ UNCHANGED <<tiles, map_files, current_mode_name, examine_mode, focus, calls,
                   edited>>

InitModes ==
    /\ ParseIdle
    /\ SaveIdle
    /\ DefaultsIdle
    /\ EditorIdle

NextModes ==
    \/ _load_atlas(EditorAtlasPath, ModeAtlas)
    \/ \E file \in ModeMapFiles : _load_map(MapPath, file)
    \/ \E name \in ModeNames : set_mode(name)
    \/ \E char \in Keys : _on_key(char)
    \/ \E widget \in PanelWidgets : FocusIn(widget)
    \/ \E coords \in PaintClicks : _paint_tile(coords[1], coords[2])
    \/ \E coords \in ModeClicks : _toggle_blocked(coords[1], coords[2])
    \/ \E coords \in ModeClicks : ExamineMode_on_map_click(coords[1], coords[2])
    \/ \E text \in TextEdits : _on_text_changed(text)
    \/ _save_and_deselect
    \/ _discard_and_deselect
    \/ \E coords \in ModeClicks : SpawnMode_on_map_click(coords[1], coords[2])
    \/ \E name \in NameEdits : EditName(name)
    \/ \E respawn \in RespawnEdits : EditRespawn(respawn)
    \/ _unfocus
    \/ _save_spawn
    \/ _delete_spawn

\* The editor from its start, with an atlas and a map loaded, the modes
\* switched, and the map edited in each of them.
SpecModes == InitModes /\ [][NextModes]_vars

\* ------------------------------------------------------------------------
\* Properties
\* ------------------------------------------------------------------------

\* The dicts equal to d as mappings: d with its items in any insertion order.
Reorderings(d) ==
    {p \in [1..Len(d) -> {d[i] : i \in 1..Len(d)}] :
        {p[i] : i \in 1..Len(d)} = {d[i] : i \in 1..Len(d)}}

\* The coordinate a written entity line starts with.
WrittenCoords(written_line) ==
    LET parts == SplitN(written_line, TAB, 2)
    IN  <<IntValue(parts[1]), IntValue(parts[2])>>

\* The position in the written lines of the delimiter line, 0 if it is not
\* written.
DelimiterAt(written, delimiter) ==
    IF \E i \in 1..Len(written) : written[i] = delimiter \o <<NL>>
    THEN CHOOSE i \in 1..Len(written) : written[i] = delimiter \o <<NL>>
    ELSE 0

\* The written lines from position from + 1 to the line before position to,
\* or to the last line when to is 0.
WrittenBetween(written, from, to) ==
    SubSeq(written, from + 1, IF to = 0 THEN Len(written) ELSE to - 1)

\* The tile, examine and spawn lines of a file written by save_map.
WrittenTileLines(written) ==
    LET ex == DelimiterAt(written, DELIM_EXAMINE)
        sp == DelimiterAt(written, DELIM_SPAWNS)
    IN  WrittenBetween(written, DelimiterAt(written, Dashes),
                       IF ex # 0 THEN ex ELSE sp)

WrittenExamineLines(written) ==
    LET ex == DelimiterAt(written, DELIM_EXAMINE)
    IN  IF ex = 0 THEN <<>>
        ELSE WrittenBetween(written, ex, DelimiterAt(written, DELIM_SPAWNS))

WrittenSpawnLines(written) ==
    LET sp == DelimiterAt(written, DELIM_SPAWNS)
    IN  IF sp = 0 THEN <<>> ELSE WrittenBetween(written, sp, 0)

\* Each line's coordinate is below the next line's, x first, then y.
StrictlyAscending(entity_lines) ==
    \A i \in 1..(Len(entity_lines) - 1) :
        KeyLess(WrittenCoords(entity_lines[i]), WrittenCoords(entity_lines[i + 1]))

\* C1 (round trip): once a non-empty map was saved by save_map and the file
\* loaded by load_map with an atlas that has every sprite used, the loaded
\* tiles and spawns equal the saved ones: the same coordinates, and at each
\* the same sprite, blocked flag and examine text, the same spawn name and
\* respawn ticks.
C1_RoundTrip ==
    phase = "loaded" =>
        /\ DictMap(loaded.tiles) = DictMap(tiles)
        /\ DictMap(loaded.spawns) = DictMap(spawns)

\* C2 (idempotent re-encode): when the decode of a file has tiles, saving the
\* decoded tiles and spawns and loading that file again gives tiles and
\* spawns equal to the decoded ones, with nothing raised on the way.
C2_ReencodeFixedPoint ==
    status = "reencoded" =>
        /\ reenc.exc = NoExc
        /\ DictMap(reenc.tiles) = DictMap(data_tiles)
        /\ DictMap(reenc.spawns) = DictMap(data_spawns)

\* C2 witness: a decoded map whose tile carries a text with a tab in it has
\* been saved and loaded again, and the text came back.
C2_Witness ==
    /\ status = "reencoded"
    /\ \E i \in 1..Len(data_tiles) : data_tiles[i][2].examine_text = <<"a", TAB, "b">>
    /\ DictMap(reenc.tiles) = DictMap(data_tiles)

Dispatched(section) ==
    /\ line_num' = line_num + 1
    /\ current_section = section
    /\ ~IsIgnored(Strip(ChompLine(line')))
    /\ ~IsDelimiter(Strip(ChompLine(line')))

\* The line is a tile line of four integer fields or more.
WellFormedTileLine(tile_line) ==
    LET parts == Split(tile_line, TAB)
    IN  /\ Len(parts) >= 4
        /\ \A i \in 1..4 : IsInt(parts[i])

\* C5 (sprite validation): a tiles-section line of four integer fields whose
\* sprite is not among the valid indices prints a warning and leaves tiles as
\* they were; one whose sprite is valid is stored at its coordinate; so every
\* tile of the MapData has a sprite among the valid indices.
C5_SpriteValidation ==
    [][ LET parts == Split(line', TAB)
            coords == <<IntValue(parts[1]), IntValue(parts[2])>>
        IN  /\ (Dispatched(SecTiles) /\ WellFormedTileLine(line')) =>
                  IF IntValue(parts[3]) \notin AtlasSprites
                  THEN /\ data_tiles' = data_tiles
                       /\ stdout' = Append(stdout,
                              Warning(line_num', "sprite index not in loaded atlas"))
                  ELSE /\ DictHas(data_tiles', coords)
                       /\ DictGet(data_tiles', coords) =
                              Tile(IntValue(parts[3]), IntValue(parts[4]) # 0)
                       /\ stdout' = stdout
            /\ \A i \in 1..Len(data_tiles') : data_tiles'[i][2].sprite \in AtlasSprites
      ]_vars

\* C5 witness: line 2 named sprite 7 and was dropped with a warning, and the
\* tile line after it was stored.
C5_Witness ==
    /\ line_num = 3
    /\ stdout = <<Warning(2, "sprite index not in loaded atlas")>>
    /\ DictKeys(data_tiles) = {<<-1, 2>>}

\* The line is an examine line of three fields or more with integer x and y.
WellFormedExamineLine(examine_line) ==
    LET parts == SplitN(examine_line, TAB, 2)
    IN  Len(parts) >= 3 /\ IsInt(parts[1]) /\ IsInt(parts[2])

\* C6 (cross-reference ordering): a well-formed examine line for coordinate c
\* sets the text of the tile at c when tiles holds c, and otherwise prints a
\* warning and changes no tile; tiles gains a coordinate only by a tile line
\* accepted in the tiles section, so it holds c exactly when such a line came
\* earlier in the file; and an accepted tile line leaves its tile without
\* text, so a dropped examine line attaches nothing later.
C6_CrossReference ==
    [][ LET parts == SplitN(line', TAB, 2)
            coords == <<IntValue(parts[1]), IntValue(parts[2])>>
            fields == Split(line', TAB)
            tile_coords == <<IntValue(fields[1]), IntValue(fields[2])>>
            accepted == /\ Dispatched(SecTiles)
                        /\ WellFormedTileLine(line')
                        /\ IntValue(fields[3]) \in AtlasSprites
        IN  /\ (Dispatched(SecExamine) /\ WellFormedExamineLine(line')) =>
                  IF coords \in DictKeys(data_tiles)
                  THEN /\ DictGet(data_tiles', coords).examine_text =
                              (IF parts[3] = <<>> THEN None ELSE parts[3])
                       /\ DictKeys(data_tiles') = DictKeys(data_tiles)
                       /\ stdout' = stdout
                  ELSE /\ data_tiles' = data_tiles
                       /\ stdout' = Append(stdout,
                              Warning(line_num', "examine text for non-existent tile"))
            /\ DictKeys(data_tiles') # DictKeys(data_tiles) =>
                  /\ accepted
                  /\ DictKeys(data_tiles') = DictKeys(data_tiles) \cup {tile_coords}
            /\ accepted => DictGet(data_tiles', tile_coords).examine_text = None
      ]_vars

\* C6 witness: the examine line for (0,0) at line 3 came before the tile line
\* for (0,0) at line 5: it was dropped with a warning, and the tile has no text.
C6_Witness ==
    /\ line_num = 5
    /\ stdout = <<Warning(3, "examine text for non-existent tile")>>
    /\ data_tiles = << <<<<0, 0>>, Tile(0, FALSE)>> >>

\* C7 (empty-map save rejection): save_map with an empty tiles map raises
\* "Cannot save empty map", whatever the spawns and the atlas path, writes
\* nothing, and leaves the file at the path as it was: absent if it was
\* absent, with its old content otherwise.
C7_EmptyMapRejected ==
    [][ (phase = "edit" /\ tiles = <<>>) =>
            /\ disk' = disk
            /\ f_written' = <<>>
            /\ phase' = "saved" => save_exc' = EmptyMapError
      ]_vars

\* C7 witness: save_map was called with no tiles, a spawn and an atlas path,
\* on a path that held a file; it raised and the file still holds x.
C7_Witness ==
    /\ phase = "saved"
    /\ tiles = <<>>
    /\ spawns # <<>>
    /\ atlas_path # None
    /\ save_exc = EmptyMapError
    /\ disk = <<"x", NL>>

\* The messages of the warnings, without their line numbers.
Messages(warnings) == [i \in 1..Len(warnings) |-> warnings[i].msg]

\* The decode of the file agrees with the decode of the file without the
\* lines of its unknown sections.
TwinAgrees ==
    status \in {"reading", "returned"} =>
        /\ twin.st.current_section = current_section
        /\ twin.st.header = header
        /\ twin.st.tiles = data_tiles
        /\ twin.st.spawns = data_spawns
        /\ Messages(twin.st.out) = Messages(stdout)

\* C8 (unknown sections): while current_section is a name other than tiles,
\* examine and spawns, a line that is no delimiter changes neither the
\* section nor header, tiles or spawns and prints nothing; and the whole
\* decode gives the header, tiles, spawns and warning messages it gives for
\* the file without those lines.
C8_UnknownSection ==
    /\ []TwinAgrees
    /\ [][ (line_num' = line_num + 1 /\ UnknownSection(current_section)
                /\ NonDelimiter(line')) =>
               /\ UNCHANGED <<current_section, header, data_tiles, data_spawns, stdout>>
               /\ status' = "reading"
         ]_vars

\* C8 witness: lines 2 to 3 were an unknown section with a line in it, the
\* tiles section was entered again at line 4 and its tile line stored, and
\* nothing was printed.
C8_Witness ==
    /\ line_num = 5
    /\ twin.line_num = 4
    /\ current_section = SecTiles
    /\ Len(data_tiles) = 1
    /\ stdout = <<>>

C10_SpawnsOnTiles == DictKeys(data_spawns) \subseteq DictKeys(data_tiles)

\* C11 (examine-text invariant): every tile's examine text is absent, or
\* it is non-empty and, with its trailing whitespace trimmed, still
\* non-empty and at most 80 characters long.
C11_ExamineTextInvariant ==
    \A i \in 1..Len(data_tiles) :
        LET examine_text == data_tiles[i][2].examine_text
            trimmed == RStripChars(examine_text, Whitespace)
        IN  \/ examine_text = None
            \/ /\ examine_text # <<>>
               /\ trimmed # <<>>
               /\ Len(trimmed) <= MAX_EXAMINE_LENGTH

\* C12 (spawn field invariant): every spawn has a non-empty name and a
\* respawn_ticks of at least 1.
C12_SpawnFieldInvariant ==
    \A i \in 1..Len(data_spawns) :
        /\ data_spawns[i][2].name # <<>>
        /\ data_spawns[i][2].respawn_ticks >= 1

\* C13 (load replaces state atomically): after a Load Map that succeeded,
\* the editor's tiles and spawns are, as mappings, those of the MapData that
\* load_map returned, which is the decode of the chosen file with the
\* atlas's indices; after a Load Map without an atlas, cancelled in the
\* dialog or failed in load_map, they are the dicts it was called on.
C13_LoadReplaces ==
    /\ op.name = "map_loaded" =>
           /\ \E file \in MapFiles : loaded = _parse_map_file(file, tile_images)
           /\ DictMap(tiles) = DictMap(loaded.tiles)
           /\ DictMap(spawns) = DictMap(loaded.spawns)
    /\ op.name \in {"no_atlas", "load_cancelled", "load_failed"} =>
           /\ tiles = op.tiles
           /\ spawns = op.spawns

\* C13 witness: a Load Map succeeded on an editor that held a tile and a
\* spawn the loaded map has not; neither is there afterwards.
C13_Witness ==
    /\ op.name = "map_loaded"
    /\ DictKeys(op.tiles) \ DictKeys(loaded.tiles) # {}
    /\ op.spawns # <<>>
    /\ loaded.spawns = <<>>
    /\ DictKeys(tiles) = DictKeys(loaded.tiles)
    /\ spawns = <<>>

\* The examine text everything after the second tab of a sidecar line
\* gives: absent when there is no third field or it is empty.
RemainderText(sidecar_line) ==
    LET parts == SplitN(sidecar_line, TAB, 2)
    IN  IF Len(parts) = 3 /\ parts[3] # <<>> THEN parts[3] ELSE None

\* The sidecar line, without its line end, is neither blank nor a comment.
DefaultsLineRead(sidecar_line) ==
    LET stripped == Strip(sidecar_line)
    IN  stripped # <<>> /\ stripped[1] # "#"

\* The first two fields of the sidecar line are an integer and 0 or 1.
ValidIndexAndFlag(sidecar_line) ==
    LET parts == Split(sidecar_line, TAB)
    IN  /\ Len(parts) >= 2
        /\ IsInt(parts[1])
        /\ IsInt(parts[2])
        /\ IntValue(parts[2]) \in {0, 1}

\* C14 (the examine field of a sidecar line is the remainder): when
\* load_tile_defaults reads a line with a valid index and blocked flag, the
\* entry of that index gets as examine text everything after the second
\* tab, absent when that is missing or empty.
C14_DefaultsRemainder ==
    [][ (td_line_num' = td_line_num + 1
            /\ DefaultsLineRead(RStripChars(td_line', {"\n", "\r"}))
            /\ ValidIndexAndFlag(RStripChars(td_line', {"\n", "\r"})))
        => LET sidecar_line == RStripChars(td_line', {"\n", "\r"})
               index == IntValue(Split(sidecar_line, TAB)[1])
           IN  /\ DictHas(defaults', index)
               /\ DictGet(defaults', index).examine_text = RemainderText(sidecar_line)
      ]_vars

\* C15 (sidecar line validation): when load_tile_defaults reads a line that
\* has fewer than 2 fields, or an index that is no integer, or a blocked
\* field other than 0 or 1, it prints one warning with the line's number
\* and stores nothing, and goes on reading.
C15_DefaultsValidation ==
    [][ (td_line_num' = td_line_num + 1
            /\ DefaultsLineRead(RStripChars(td_line', {"\n", "\r"}))
            /\ ~ValidIndexAndFlag(RStripChars(td_line', {"\n", "\r"})))
        => /\ defaults' = defaults
           /\ Len(td_stdout') = Len(td_stdout) + 1
           /\ td_stdout'[Len(td_stdout')].line_num = td_line_num'
           /\ td_status' = "reading"
      ]_vars

\* The defaults path of each atlas path: its extension, if it has one,
\* replaced by .tiles.
C16_DefaultsPathOf(path) ==
    CASE path = <<"d", "/", "t", ".", "p", "n", "g">> -> <<"d", "/", "t", ".", "t", "i", "l", "e", "s">>
      [] path = <<"t">> -> <<"t", ".", "t", "i", "l", "e", "s">>
      [] path = <<"a", ".", "b", "/", "t">> -> <<"a", ".", "b", "/", "t", ".", "t", "i", "l", "e", "s">>
      [] path = <<".", "p", "n", "g">> -> <<".", "p", "n", "g", ".", "t", "i", "l", "e", "s">>

\* C16 (a missing sidecar): load_tile_defaults looks at the atlas path with
\* its extension replaced by .tiles and nowhere else; when there is no file
\* there, whatever other files there are, it returns an empty dict, having
\* read no line and printed no warning.
C16_MissingSidecar ==
    td_status # "idle" =>
        /\ tiles_path = C16_DefaultsPathOf(atlas_path)
        /\ C16_DefaultsPathOf(atlas_path) \notin existing =>
               /\ td_status = "returned"
               /\ defaults = <<>>
               /\ td_stdout = <<>>
               /\ td_line_num = 0

\* C16 witness: for the atlas d/t.png there is a file d/t.png.tiles and none
\* at d/t.tiles, and load_tile_defaults has returned an empty dict.
C16_Witness ==
    /\ td_status = "returned"
    /\ atlas_path = <<"d", "/", "t", ".", "p", "n", "g">>
    /\ existing = {<<"d", "/", "t", ".", "p", "n", "g", ".", "t", "i", "l", "e", "s">>}
    /\ defaults = <<>>
    /\ td_stdout = <<>>

\* The tile the defaults give for a sprite: its entry's blocked flag and
\* examine text, not blocked and no text when it has no entry.
TileWithDefaults(sprite, tile_defaults) ==
    IF DictHas(tile_defaults, sprite)
    THEN [sprite |-> sprite,
          blocked |-> DictGet(tile_defaults, sprite).blocked,
          examine_text |-> DictGet(tile_defaults, sprite).examine_text]
    ELSE Tile(sprite, FALSE)

\* C17 (defaults are applied on paint): with an atlas loaded that has a
\* sidecar, a paint on a coordinate that held no tile puts there the tile
\* the sidecar's defaults give for the brush.
C17_DefaultsOnPaint ==
    [][ (op'.name = "painted" /\ sidecar # None)
        => \A coords \in DictKeys(tiles') \ DictKeys(tiles) :
               DictGet(tiles', coords) =
                   TileWithDefaults(brush,
                       load_tile_defaults(atlas_path, sidecar).defaults)
      ]_vars

\* The section each delimiter line names, "tiles" when it names none.
C18_SectionNamed(delimiter_line) ==
    CASE delimiter_line = <<"-", "-", "-">> -> <<"t", "i", "l", "e", "s">>
      [] delimiter_line = <<"-", "-", "-", " ", "e", "x", "a", "m", "i", "n", "e">> -> <<"e", "x", "a", "m", "i", "n", "e">>
      [] delimiter_line = <<"-", "-", "-", " ", "s", "p", "a", "w", "n", "s">> -> <<"s", "p", "a", "w", "n", "s">>
      [] delimiter_line = <<"-", "-", "-", " ", "f", "u", "t", "u", "r", "e">> -> <<"f", "u", "t", "u", "r", "e">>
      [] delimiter_line = <<" ", "-", "-", "-", " ", " ", "s", "p", "a", "w", "n", "s", " ">> -> <<"s", "p", "a", "w", "n", "s">>

\* The lines whose trimmed form starts with ---.
C18_DelimiterLines ==
    {l \in LinePool : \E i \in 1..Len(l) :
        /\ \A j \in 1..(i - 1) : l[j] \in Whitespace
        /\ i + 2 <= Len(l)
        /\ l[i] = "-" /\ l[i + 1] = "-" /\ l[i + 2] = "-"}

\* C18 (section delimiter transition): a delimiter line read in the header
\* makes the section "tiles" whatever it names; read later it makes the
\* section the one it names, "tiles" when it names none; and it changes
\* neither header nor tiles nor spawns, and prints nothing.
C18_DelimiterTransition ==
    [][ (line_num' = line_num + 1 /\ line' \in C18_DelimiterLines)
        => /\ current_section' = IF current_section = None
                                 THEN SecTiles
                                 ELSE C18_SectionNamed(line')
           /\ header' = header
           /\ data_tiles' = data_tiles
           /\ data_spawns' = data_spawns
           /\ stdout' = stdout
      ]_vars

\* C18 witness: the first line of the file was "--- spawns", and the section
\* is "tiles".
C18_Witness ==
    /\ line_num = 1
    /\ line = <<"-", "-", "-", " ", "s", "p", "a", "w", "n", "s">>
    /\ current_section = SecTiles
    /\ status = "reading"

\* C19 (a later tile line replaces the whole tile): a tiles-section line of
\* four integer fields with a valid sprite, for a coordinate that holds a
\* tile, leaves there the tile of its sprite and blocked flag without examine
\* text, and leaves every other tile as it was.
C19_TileOverwrite ==
    [][ LET parts == Split(line', TAB)
            coords == <<IntValue(parts[1]), IntValue(parts[2])>>
        IN  (/\ Dispatched(SecTiles)
             /\ WellFormedTileLine(line')
             /\ IntValue(parts[3]) \in AtlasSprites
             /\ coords \in DictKeys(data_tiles))
            => /\ DictGet(data_tiles', coords) =
                      [sprite |-> IntValue(parts[3]),
                       blocked |-> (IntValue(parts[4]) # 0),
                       examine_text |-> None]
               /\ DictKeys(data_tiles') = DictKeys(data_tiles)
               /\ \A other \in DictKeys(data_tiles) \ {coords} :
                      DictGet(data_tiles', other) = DictGet(data_tiles, other)
      ]_vars

\* C19 witness: line 6, in the tiles section entered again after an examine
\* section, was a tile line for (0,0), whose tile had sprite 0 and the text
\* a<TAB>b; the tile now has sprite 3, is blocked and has no text.
C19_Witness ==
    /\ line_num = 6
    /\ current_section = SecTiles
    /\ tiles_before # None
    /\ tiles_before = << <<<<0, 0>>, [sprite |-> 0, blocked |-> FALSE,
                                      examine_text |-> <<"a", "\t", "b">>]>> >>
    /\ data_tiles = << <<<<0, 0>>, [sprite |-> 3, blocked |-> TRUE,
                                    examine_text |-> None]>> >>

\* C20 (a line that warns has no effect): reading a line prints at most one
\* warning; when it prints one, header, tiles and spawns are as before the
\* line, and the warning carries the number of the line, counted from 1 over
\* all lines read.
C20_WarningFrame ==
    [][ line_num' = line_num + 1
        => /\ Len(stdout') \in {Len(stdout), Len(stdout) + 1}
           /\ SubSeq(stdout', 1, Len(stdout)) = stdout
           /\ Len(stdout') = Len(stdout) + 1 =>
                  /\ header' = header
                  /\ data_tiles' = data_tiles
                  /\ data_spawns' = data_spawns
                  /\ stdout'[Len(stdout')].line_num = line_num'
      ]_vars

\* C20 witness: line 5, after a header line, the two delimiters that lead to
\* the spawns section and one more line that stored and printed nothing, was
\* a spawn line with an empty name; the one warning names line 5 and no
\* spawn is stored.
C20_Witness ==
    /\ line_num = 5
    /\ line = <<"0", "\t", "0", "\t", "\t", "5">>
    /\ current_section = SecSpawns
    /\ Len(header) = 1
    /\ stdout = <<Warning(5, "empty spawn name")>>
    /\ data_tiles = <<>>
    /\ data_spawns = <<>>

\* The line is blank, or its first character that is not whitespace is #.
C21_BlankOrComment(file_line) ==
    \/ \A i \in 1..Len(file_line) : file_line[i] \in Whitespace
    \/ \E i \in 1..Len(file_line) :
           /\ file_line[i] = "#"
           /\ \A j \in 1..(i - 1) : file_line[j] \in Whitespace

\* C21 (blank lines and comments): reading a blank line or a comment, in the
\* header and in every section, known or not, leaves the section, the
\* header, tiles and spawns as they were and prints nothing.
C21_IgnoredLines ==
    [][ (line_num' = line_num + 1 /\ C21_BlankOrComment(line'))
        => /\ current_section' = current_section
           /\ header' = header
           /\ data_tiles' = data_tiles
           /\ data_spawns' = data_spawns
           /\ stdout' = stdout
           /\ status' = "reading"
      ]_vars

\* C21 witness: line 3, in the examine section, was the comment " # x:y"; a
\* tile is stored and nothing is printed.
C21_Witness ==
    /\ line_num = 4
    /\ line = <<" ", "#", " ", "x", ":", "y">>
    /\ current_section = SecExamine
    /\ Len(data_tiles) = 1
    /\ header = <<>>
    /\ stdout = <<>>

\* The key and the value each header line of the pool gives.
C22_KeyValue(header_line) ==
    CASE header_line = <<"n", ":", "a">> -> <<<<"n">>, <<"a">>>>
      [] header_line = <<"n", ":", "b">> -> <<<<"n">>, <<"b">>>>
      [] header_line = <<" ", "k", " ", ":", " ", "v", ":", "w", " ">> -> <<<<"k">>, <<"v", ":", "w">>>>

\* The lines of the pool that are header lines with a colon.
C22_ColonLines == {<<"n", ":", "a">>, <<"n", ":", "b">>, <<" ", "k", " ", ":", " ", "v", ":", "w", " ">>}

\* The lines of the pool that are neither blank nor comments nor
\* delimiters and have no colon.
C22_NoColonLines == {<<"x">>, <<"0", "\t", "0", "\t", "0", "\t", "0">>}

\* C22 (header lines): in the header, a line with a colon stores under the
\* trimmed text before its first colon the trimmed text after it, in place
\* of the value the key had, and leaves the other keys alone; a line without
\* a colon changes nothing; neither prints anything.
C22_HeaderLines ==
    [][ (line_num' = line_num + 1 /\ current_section = None)
        => /\ line' \in C22_ColonLines =>
                  /\ DictKeys(header') = DictKeys(header) \cup {C22_KeyValue(line')[1]}
                  /\ DictGet(header', C22_KeyValue(line')[1]) = C22_KeyValue(line')[2]
                  /\ \A k \in DictKeys(header) \ {C22_KeyValue(line')[1]} :
                         DictGet(header', k) = DictGet(header, k)
                  /\ stdout' = stdout
           /\ line' \in C22_NoColonLines =>
                  /\ header' = header
                  /\ current_section' = None
                  /\ stdout' = stdout
      ]_vars

\* C22 witness: the header lines n:a, " k : v:w " and n:b were read; n has
\* the value b and k the value v:w.
C22_Witness ==
    /\ line_num = 3
    /\ current_section = None
    /\ line = <<"n", ":", "b">>
    /\ DictKeys(header) = {<<"n">>, <<"k">>}
    /\ DictGet(header, <<"n">>) = <<"b">>
    /\ DictGet(header, <<"k">>) = <<"v", ":", "w">>

\* C26 (header mode is left once): the section is None exactly as long as no
\* delimiter line was read, and once it is not None it never is again; while
\* it is None, tiles and spawns are empty, whatever lines were read.
C26_HeaderModeOnce ==
    /\ [](current_section = None => data_tiles = <<>> /\ data_spawns = <<>>)
    /\ [][current_section # None => current_section' # None]_vars
    /\ [][ (line_num' = line_num + 1 /\ current_section = None)
           => (current_section' = None <=> line' \notin C18_DelimiterLines) ]_vars

\* C26 witness: a file of a tile line, an examine line and a spawn line
\* without any delimiter was read to its end; the section is None and tiles
\* and spawns are empty.
C26_Witness ==
    /\ status = "returned"
    /\ line_num = 3
    /\ line = <<"1", "\t", "1", "\t", "r", "\t", "5">>
    /\ current_section = None
    /\ header = <<>>
    /\ data_tiles = <<>>
    /\ data_spawns = <<>>
    /\ stdout = <<>>

\* The header of the file on disk, as the decoder reads it.
SavedHeader == _parse_map_file(disk, AtlasSprites).header

\* The two numbers of an origin value.
OriginOf(value) ==
    LET parts == Split(value, ",")
    IN  <<IntValue(parts[1]), IntValue(parts[2])>>

\* C24 (header bounding box): the file save_map wrote for a non-empty map
\* gives as origin the least x and the least y of the tile coordinates, as
\* width the greatest x minus the least plus one and as height the same of
\* y, whatever the spawns and whatever the file held before; so width and
\* height are at least 1 and every tile lies within the box.
C24_BoundingBox ==
    (phase = "saved" /\ save_exc = NoExc) =>
        LET saved_header == SavedHeader
            width == IntValue(DictGet(saved_header, <<"w", "i", "d", "t", "h">>))
            height == IntValue(DictGet(saved_header, <<"h", "e", "i", "g", "h", "t">>))
            origin == OriginOf(DictGet(saved_header, <<"o", "r", "i", "g", "i", "n">>))
            min_x == origin[1]
            min_y == origin[2]
        IN  /\ \E k \in DictKeys(tiles) : k[1] = min_x
            /\ \E k \in DictKeys(tiles) : k[2] = min_y
            /\ \E k \in DictKeys(tiles) : k[1] = min_x + width - 1
            /\ \E k \in DictKeys(tiles) : k[2] = min_y + height - 1
            /\ \A k \in DictKeys(tiles) :
                   /\ min_x <= k[1] /\ k[1] < min_x + width
                   /\ min_y <= k[2] /\ k[2] < min_y + height
            /\ width >= 1
            /\ height >= 1

\* C24 witness: tiles at (-1, 2) and (2, 0) and a spawn at (2, -1), below
\* every tile, were saved: the header says width 4, height 3, origin -1,0.
C24_Witness ==
    /\ phase = "saved"
    /\ save_exc = NoExc
    /\ DictKeys(tiles) = {<<-1, 2>>, <<2, 0>>}
    /\ DictKeys(spawns) = {<<2, -1>>}
    /\ DictGet(SavedHeader, <<"w", "i", "d", "t", "h">>) = <<"4">>
    /\ DictGet(SavedHeader, <<"h", "e", "i", "g", "h", "t">>) = <<"3">>
    /\ DictGet(SavedHeader, <<"o", "r", "i", "g", "i", "n">>) = <<"-", "1", ",", "0">>

\* The lines of the file on disk, as iterating the file gives them.
SavedFile == FileLines(disk)

\* The number of tiles that have an examine text.
TilesWithText == Cardinality({i \in 1..Len(tiles) : tiles[i][2].examine_text # None})

\* C23 (optional sections): the file save_map wrote has the "--- examine"
\* line exactly when some tile has an examine text, and then one line per
\* such tile after it; it has the "--- spawns" line exactly when there are
\* spawns, and then one line per spawn after it.
C23_OptionalSections ==
    (phase = "saved" /\ save_exc = NoExc) =>
        /\ DelimiterAt(SavedFile, DELIM_EXAMINE) # 0 <=> TilesWithText > 0
        /\ Len(WrittenExamineLines(SavedFile)) = TilesWithText
        /\ DelimiterAt(SavedFile, DELIM_SPAWNS) # 0 <=> spawns # <<>>
        /\ Len(WrittenSpawnLines(SavedFile)) = Len(spawns)

\* The coordinates of the tile lines of the file on disk.
SavedTileCoords ==
    {WrittenCoords(WrittenTileLines(SavedFile)[i]) :
        i \in 1..Len(WrittenTileLines(SavedFile))}

\* C25 (section order): in the file save_map wrote, the bare "---" comes
\* before the "--- examine" line and that before the "--- spawns" line, and
\* every examine line names the coordinate of a tile line above it; and
\* loading the file prints no "examine text for non-existent tile" warning.
C25_SectionOrder ==
    /\ (phase \in {"saved", "loaded"} /\ save_exc = NoExc) =>
           LET bare == DelimiterAt(SavedFile, Dashes)
               ex == DelimiterAt(SavedFile, DELIM_EXAMINE)
               sp == DelimiterAt(SavedFile, DELIM_SPAWNS)
               examine_lines == WrittenExamineLines(SavedFile)
           IN  /\ bare = 6
               /\ ex # 0 => bare < ex
               /\ sp # 0 => bare < sp /\ ex < sp
               /\ \A i \in 1..Len(examine_lines) :
                      WellFormedExamineLine(examine_lines[i]) =>
                          WrittenCoords(examine_lines[i]) \in SavedTileCoords
    /\ phase = "loaded" =>
           \A i \in 1..Len(loaded.out) :
               loaded.out[i].msg # "examine text for non-existent tile"

\* Painting at coords left everything but the sprite of the tile there as
\* it was, and left everything as it was where the code says it returns.
PaintFrame(coords) ==
    /\ spawns' = spawns
    /\ DictKeys(tiles) \subseteq DictKeys(tiles')
    /\ DictKeys(tiles') \subseteq DictKeys(tiles) \cup {coords}
    /\ \A k \in DictKeys(tiles) \ {coords} : DictGet(tiles', k) = DictGet(tiles, k)
    /\ DictHas(tiles, coords) =>
           /\ DictGet(tiles', coords).blocked = DictGet(tiles, coords).blocked
           /\ DictGet(tiles', coords).examine_text = DictGet(tiles, coords).examine_text
    /\ ( \/ tile_images = {}
         \/ coords[1] < -512 \/ coords[1] >= 512
         \/ coords[2] < -512 \/ coords[2] >= 512
         \/ (DictHas(tiles, coords) /\ DictGet(tiles, coords).sprite = brush) )
       => tiles' = tiles

\* C28 (painting frame): painting at a coordinate leaves the spawns and every
\* other tile as they were; a tile already there keeps its blocked flag and
\* its examine text; and with no atlas loaded, at a coordinate outside
\* -512 <= x, y < 512, or with the brush the tile already shows, the tiles
\* are as they were.
C28_PaintFrame ==
    [][\A coords \in ClickCoords : _paint_tile(coords[1], coords[2]) => PaintFrame(coords)]_vars

\* C28 witness: the tile at (0, 0), loaded with the text hi next to a tile
\* at (1, 1) with a spawn on it, was painted over with sprite 1 and has its
\* text still.
C28_Witness ==
    /\ op.name = "repainted"
    /\ DictHas(tiles, <<0, 0>>)
    /\ DictGet(tiles, <<0, 0>>).sprite = 1
    /\ DictGet(tiles, <<0, 0>>).examine_text = <<"h", "i">>
    /\ DictHas(tiles, <<1, 1>>)
    /\ DictGet(tiles, <<1, 1>>).blocked
    /\ DictHas(spawns, <<1, 1>>)

\* Every spawn is at a coordinate that holds a tile.
CoLocated(tiles_now, spawns_now) == DictKeys(spawns_now) \subseteq DictKeys(tiles_now)

\* A step of one of the edit operations: paint, blocked toggle, examine
\* save, spawn select, spawn save, spawn delete.
EditOperation ==
    \/ \E coords \in PaintClicks : _paint_tile(coords[1], coords[2])
    \/ \E coords \in ModeClicks : _toggle_blocked(coords[1], coords[2])
    \/ _save_and_deselect
    \/ \E coords \in ModeClicks : SpawnMode_on_map_click(coords[1], coords[2])
    \/ _save_spawn
    \/ _delete_spawn

\* C27 (co-location under edits): an edit operation begun where every spawn
\* is at a coordinate that holds a tile ends where that is so again, and
\* removes no tile; and a click in Spawn mode at a coordinate without a tile
\* leaves the selection as it was.
C27_CoLocation ==
    [][ /\ (EditOperation /\ CoLocated(tiles, spawns)) =>
               /\ CoLocated(tiles', spawns')
               /\ DictKeys(tiles) \subseteq DictKeys(tiles')
        /\ \A coords \in ModeClicks :
               (SpawnMode_on_map_click(coords[1], coords[2]) /\ ~DictHas(tiles, coords))
                   => spawn_mode' = spawn_mode
      ]_vars

\* C29 (Enter without an edit): Return in the text widget, with a tile
\* selected and the text not edited since, leaves every tile as it was; and
\* Escape in the text widget leaves every tile as it was.
C29_EnterKeepsText ==
    [][ /\ (_save_and_deselect /\ examine_mode._selected_coords # None /\ ~edited)
               => tiles' = tiles
        /\ _discard_and_deselect => tiles' = tiles
      ]_vars

\* The mode each name and each key stands for, where it stands for one.
C30_Registered(name) == name \in {"paint", "blocked", "examine", "spawn"}

C30_ModeOfKey(char) ==
    CASE char = "E" -> "examine"
      [] char = "c" -> "none"

\* Neither the current mode nor a selection changes, nor a tile.
C30_NothingSwitched ==
    /\ current_mode_name' = current_mode_name
    /\ examine_mode'._selected_coords = examine_mode._selected_coords
    /\ spawn_mode'._selected_coords = spawn_mode._selected_coords
    /\ tiles' = tiles

\* The mode is switched to name: the current mode's on_deactivate, then the
\* new mode's on_activate; no tile selected in either mode; no tile changed.
C30_SwitchedTo(name) ==
    /\ current_mode_name' = name
    /\ calls' = <<<<current_mode_name, "on_deactivate">>, <<name, "on_activate">>>>
    /\ examine_mode'._selected_coords = None
    /\ spawn_mode'._selected_coords = None
    /\ tiles' = tiles
    /\ spawns' = spawns

\* C30 (mode switching): set_mode with a registered name runs the current
\* mode's on_deactivate, then the named mode's on_activate, and leaves the
\* named mode current, no tile selected in Examine or Spawn mode and every
\* tile as it was; set_mode with another name, and a key pressed while the
\* text widget or an entry has the keyboard, change neither the mode nor a
\* selection; a hotkey pressed elsewhere switches to its mode.
C30_ModeSwitch ==
    [][ /\ \A name \in ModeNames :
               set_mode(name) =>
                   IF C30_Registered(name) THEN C30_SwitchedTo(name)
                   ELSE C30_NothingSwitched
        /\ \A char \in Keys :
               _on_key(char) =>
                   IF focus \in {"_text_widget", "_name_entry", "_respawn_entry"}
                      \/ C30_ModeOfKey(char) = "none"
                   THEN C30_NothingSwitched
                   ELSE C30_SwitchedTo(C30_ModeOfKey(char))
      ]_vars

\* C30 witness: Examine mode was left for Paint mode while a tile was
\* selected and its text edited but not saved: no tile is selected and the
\* tile has no text.
C30_Witness ==
    /\ op.name = "mode_set"
    /\ current_mode_name = "paint"
    /\ calls = <<<<"examine", "on_deactivate">>, <<"paint", "on_activate">>>>
    /\ edited
    /\ examine_mode._selected_coords = None
    /\ spawn_mode._selected_coords = None
    /\ DictHas(tiles, <<0, 0>>)
    /\ DictGet(tiles, <<0, 0>>).examine_text = None

====
